---- MODULE Spec2Model ----
(***************************************************************************)
(* WrapMeApp recommendation engine (public/js/engine.js) with its static   *)
(* configuration (CLOTHING_ITEMS, TEMP_REQUIREMENTS, ADJUSTMENTS, ...) and *)
(* the substitution handler of the presentation layer (public/js/app.js).  *)
(*                                                                         *)
(* Numbers.  The engine computes with JavaScript numbers.  Here every      *)
(* insulation (CLO) value is an exact rational, stored as an integer count *)
(* of 1/Scale CLO; temperatures are stored as an integer count of          *)
(* 1/TempDen degrees.  Scale is chosen so that every interpolated          *)
(* requirement is an integer.  Products with decimal factors (x * 1.3,     *)
(* x * 0.9, ...) are compared by cross-multiplication.                     *)
(***************************************************************************)
EXTENDS Integers, Sequences, FiniteSets, TLC

VARIABLES
  screen,                      \* the screen shown, or the phase of a query
  stateTemperature,            \* state.temperature, in 1/TempDen degrees
  stateAgeCategory,            \* state.ageCategory
  stateGender,                 \* state.gender
  stateWarmth,                 \* the calibration offset of the request
  stateRequirements,           \* the requirement set of the last query
  prevTemperature,             \* the temperature of the query before it
  prevRequirements,            \* and its requirement set
  validCombinations,           \* the ranked list handed to the selector
  selected,                    \* the positions of that list it returned
  recommendations,             \* the list getRecommendations returned
  stateCurrentRecommendation,  \* state.currentRecommendation
  substituteModal,             \* the substitute modal: item and substitutes
  calls,                       \* the replaceItem calls made on the outfit
  prevRecommendations,         \* the list returned for the request before
  zoneCall,                    \* the last generateZoneCombinations call
  combinationsCall,            \* the last findCombinations call
  validationCall               \* the last isValidCombination call

vars == <<screen, stateTemperature, stateAgeCategory, stateGender, stateWarmth,
          stateRequirements, prevTemperature, prevRequirements,
          validCombinations, selected, recommendations,
          stateCurrentRecommendation, substituteModal, calls,
          prevRecommendations, zoneCall, combinationsCall, validationCall>>

\* Temperature resolution: temperatures are multiples of 1/TempDen degree.
TempDen == 2

\* One CLO is Scale units (hundredths, times 30 for the band widths 5, 3, 2,
\* times the temperature resolution).
Scale == 3000 * TempDen

\* The temperature range the presentation layer admits (whole degrees).
TempMin == -15

TempMax == 20

\* c hundredths of a CLO, in model units.
H(c) == c * (Scale \div 100)

\* d whole degrees, in model units.
Deg(d) == d * TempDen

Abs(x) == IF x < 0 THEN -x ELSE x

Max2(a, b) == IF a >= b THEN a ELSE b

Min2(a, b) == IF a <= b THEN a ELSE b

Zones == <<"core", "head", "hands", "neck", "feet">>

ZoneSet == {"core", "head", "hands", "neck", "feet"}

(***************************************************************************)
(* Configuration                                                           *)
(***************************************************************************)
Item(k, c, cat, z) == [key |-> k, clo |-> H(c), category |-> cat, zone |-> z]

\* The catalog in its enumeration order (group by group, key by key).
CLOTHING_ITEMS ==
  << Item("vest", 15, "base", "core"),
     Item("t-shirt", 20, "base", "core"),
     Item("long-sleeve-top", 25, "base", "core"),
     Item("long-sleeve-shirt", 25, "base", "core"),
     Item("thermal-top", 35, "base", "core"),
     Item("thermal-leggings", 35, "base", "core"),
     Item("vest-top", 13, "mid", "core"),
     Item("light-cardigan", 20, "mid", "core"),
     Item("cardigan", 25, "mid", "core"),
     Item("jumper", 28, "mid", "core"),
     Item("turtleneck", 29, "mid", "core"),
     Item("hoodie", 34, "mid", "core"),
     Item("fleece", 37, "mid", "core"),
     Item("thick-jumper", 40, "mid", "core"),
     Item("thick-shirt", 35, "mid", "core"),
     Item("light-jacket", 27, "outer", "core"),
     Item("coat", 50, "outer", "core"),
     Item("padded-coat", 62, "outer", "core"),
     Item("winter-coat", 85, "outer", "core"),
     Item("hat", 5, "accessory", "head"),
     Item("warm-hat", 8, "accessory", "head"),
     Item("balaclava", 10, "accessory", "head"),
     Item("gloves", 5, "accessory", "hands"),
     Item("insulated-gloves", 10, "accessory", "hands"),
     Item("mittens", 15, "accessory", "hands"),
     Item("scarf", 5, "accessory", "neck"),
     Item("thick-scarf", 8, "accessory", "neck"),
     Item("thick-socks", 4, "accessory", "feet"),
     Item("thermal-socks", 6, "accessory", "feet") >>

ItemSet == {CLOTHING_ITEMS[i] : i \in DOMAIN CLOTHING_ITEMS}

Keys == {it.key : it \in ItemSet}

\* The catalog entry with key k (CLOTHING_ITEMS.<group>[k] with its key).
ItemOf(k) == CHOOSE it \in ItemSet : it.key = k

Req(mn, mx, op) == [min |-> H(mn), max |-> H(mx), optimal |-> H(op)]

\* maxExposure 0 and warning "" stand for an absent field.
Band(c, h, ha, n, f, risk, al, expo, warn) ==
  [core |-> c, head |-> h, hands |-> ha, neck |-> n, feet |-> f,
   riskLevel |-> risk, alert |-> al, maxExposure |-> expo, warning |-> warn]

TEMP_REQUIREMENTS ==
  [k \in {15, 10, 7, 5, 2, 0, -5, -10} |->
    CASE k = 15 -> Band(Req(20, 40, 30), Req(0, 0, 0), Req(0, 0, 0),
                        Req(0, 0, 0), Req(0, 0, 0), "low", "green", 0, "")
      [] k = 10 -> Band(Req(30, 70, 50), Req(0, 5, 0), Req(0, 0, 0),
                        Req(0, 5, 0), Req(0, 0, 0), "low-moderate", "green", 0, "")
      [] k = 7 -> Band(Req(60, 90, 85), Req(0, 5, 5), Req(0, 5, 0),
                       Req(0, 5, 5), Req(0, 4, 0), "low", "green", 0, "")
      [] k = 5 -> Band(Req(80, 100, 90), Req(5, 8, 5), Req(5, 10, 5),
                       Req(5, 8, 5), Req(0, 4, 0), "moderate", "yellow", 0, "")
      [] k = 2 -> Band(Req(110, 140, 125), Req(5, 8, 8), Req(5, 10, 10),
                       Req(0, 8, 8), Req(0, 6, 4), "moderate", "yellow", 0, "")
      [] k = 0 -> Band(Req(120, 155, 140), Req(5, 10, 8), Req(5, 15, 10),
                       Req(5, 8, 8), Req(4, 6, 6), "moderate", "yellow", 45, "")
      [] k = -5 -> Band(Req(150, 190, 170), Req(8, 10, 10), Req(10, 15, 15),
                        Req(5, 8, 8), Req(4, 6, 6), "high", "amber", 20,
                        "Severe cold. Minimize outdoor time. High risk of frostbite.")
      [] k = -10 -> Band(Req(160, 200, 180), Req(10, 10, 10), Req(15, 15, 15),
                         Req(8, 8, 8), Req(6, 6, 6), "severe", "red", 10,
                         "Extreme cold. Get inside quick as you can! Frostbite risk within minutes.")]

AgeCategories == {"infant", "child", "teen", "adult", "elderly", "very-elderly"}

\* "unspecified" has no entry in ADJUSTMENTS.gender.
Genders == {"male", "female", "unspecified"}

\* ADJUSTMENTS.age[ageCategory] || { core: 0 }
AgeAdjustment(ageCategory) ==
  CASE ageCategory = "infant" -> H(25)
    [] ageCategory = "child" -> H(10)
    [] ageCategory = "teen" -> H(5)
    [] ageCategory = "adult" -> H(0)
    [] ageCategory = "elderly" -> H(15)
    [] ageCategory = "very-elderly" -> H(30)
    [] OTHER -> 0

\* ADJUSTMENTS.gender[gender] || { core: 0 }
GenderAdjustment(gender) ==
  CASE gender = "female" -> H(15)
    [] gender = "male" -> H(0)
    [] OTHER -> 0

(***************************************************************************)
(* Requirement model                                                       *)
(***************************************************************************)
\* The breakpoints of getTemperatureBand, in descending order.
bands == <<15, 10, 7, 5, 2, 0, -5>>

\* No interpolation: the value of the colder band throughout.
interpolateFlat(temp, lo, up, lower, upper) == lower

\* The factor applied from the wrong end: 0 at the upper temperature.
interpolateReversed(temp, lo, up, lower, upper) ==
  upper + ((temp - Deg(lo)) * (lower - upper)) \div (Deg(up) - Deg(lo))

\* lower + factor * (upper - lower), factor = (temp - lo) / (up - lo).
interpolate(temp, lo, up, lower, upper) ==
  lower + ((temp - Deg(lo)) * (upper - lower)) \div (Deg(up) - Deg(lo))

interpolateZone(temp, lo, up, lowerZ, upperZ) ==
  [min |-> interpolate(temp, lo, up, lowerZ.min, upperZ.min),
   max |-> interpolate(temp, lo, up, lowerZ.max, upperZ.max),
   optimal |-> interpolate(temp, lo, up, lowerZ.optimal, upperZ.optimal)]

\* The interpolation between the band at lo degrees and the band at up
\* degrees; the descriptive fields are those of the lower band.
interpolateBand(temp, lo, up, lowerReq, upperReq) ==
  [core |-> interpolateZone(temp, lo, up, lowerReq.core, upperReq.core),
   head |-> interpolateZone(temp, lo, up, lowerReq.head, upperReq.head),
   hands |-> interpolateZone(temp, lo, up, lowerReq.hands, upperReq.hands),
   neck |-> interpolateZone(temp, lo, up, lowerReq.neck, upperReq.neck),
   feet |-> interpolateZone(temp, lo, up, lowerReq.feet, upperReq.feet),
   riskLevel |-> lowerReq.riskLevel,
   alert |-> lowerReq.alert,
   maxExposure |-> lowerReq.maxExposure,
   warning |-> lowerReq.warning]

\* The loop over the breakpoints: the index i with
\* bands[i + 1] <= temp < bands[i].
bandIndex(temp) ==
  CHOOSE j \in 1..(Len(bands) - 1) :
    temp >= Deg(bands[j + 1]) /\ temp < Deg(bands[j])

interpolateAt(temp, lo, up, table) ==
  interpolateBand(temp, lo, up, table[lo], table[up])

interpolateFrom(temp, i, table) ==
  interpolateAt(temp, bands[i + 1], bands[i], table)

\* The fixed bands without interpolation: the band of the warmest
\* breakpoint that is not above the temperature.
\* A lookup that ignores the temperature and answers with the coldest band.
getTemperatureBandColdest(temp) == TEMP_REQUIREMENTS[-5]

\* A lookup that answers with the warmest band.
getTemperatureBandWarmest(temp) == TEMP_REQUIREMENTS[15]

\* A lookup that clamps every temperature below 0 to the coldest band.
getTemperatureBandFrozen(temp) ==
  IF temp >= Deg(15) THEN TEMP_REQUIREMENTS[15]
  ELSE IF temp < Deg(0) THEN TEMP_REQUIREMENTS[-5]
  ELSE IF \E i \in DOMAIN bands : temp = Deg(bands[i])
    THEN TEMP_REQUIREMENTS[CHOOSE k \in DOMAIN TEMP_REQUIREMENTS : temp = Deg(k)]
  ELSE interpolateFrom(temp, bandIndex(temp), TEMP_REQUIREMENTS)

getTemperatureBandStepped(temp) ==
  IF temp >= Deg(15) THEN TEMP_REQUIREMENTS[15]
  ELSE IF temp <= Deg(-5) THEN TEMP_REQUIREMENTS[-5]
  ELSE TEMP_REQUIREMENTS[bands[bandIndex(temp) + 1]]

getTemperatureBand(temp) ==
  IF temp >= Deg(15) THEN TEMP_REQUIREMENTS[15]
  ELSE IF temp <= Deg(-5) THEN TEMP_REQUIREMENTS[-5]
  ELSE IF \E i \in DOMAIN bands : temp = Deg(bands[i])
    THEN TEMP_REQUIREMENTS[CHOOSE k \in DOMAIN TEMP_REQUIREMENTS : temp = Deg(k)]
  ELSE interpolateFrom(temp, bandIndex(temp), TEMP_REQUIREMENTS)

\* The age and gender adjustment of the core zone, and the shorter exposure
\* of the elderly.
adjustCore(baseReqs, adj, ageCategory) ==
  [baseReqs EXCEPT
     !.core = [min |-> @.min + adj, max |-> @.max + adj,
               optimal |-> @.optimal + adj],
     !.maxExposure = IF ageCategory = "elderly" /\ @ # 0
                       THEN (@ * 7) \div 10 ELSE @]

getAdjustedRequirements(temp, ageCategory, gender) ==
  adjustCore(getTemperatureBand(temp),
             AgeAdjustment(ageCategory) + GenderAdjustment(gender),
             ageCategory)

\* A calibration that shifts the head requirement along with the core.
calibrateHeadToo(requirements, warmthAdjustment, adjustment) ==
  IF warmthAdjustment # 0
    THEN [requirements EXCEPT
            !.core = [min |-> Max2(0, @.min + adjustment),
                      max |-> @.max + adjustment,
                      optimal |-> @.optimal + adjustment],
            !.head = [min |-> Max2(0, @.min + adjustment),
                      max |-> @.max + adjustment,
                      optimal |-> @.optimal + adjustment]]
    ELSE requirements

\* The heat calibration of getRecommendations: a quarter of a CLO per step,
\* the minimum floored at 0.
calibrate(requirements, warmthAdjustment, adjustment) ==
  IF warmthAdjustment # 0
    THEN [requirements EXCEPT
            !.core = [min |-> Max2(0, @.min + adjustment),
                      max |-> @.max + adjustment,
                      optimal |-> @.optimal + adjustment]]
    ELSE requirements

\* Steps 1 and the heat calibration of getRecommendations: the requirement
\* set the recommendation is computed against.
computeRequirements(temp, ageCategory, gender, warmthAdjustment) ==
  calibrate(getAdjustedRequirements(temp, ageCategory, gender),
            warmthAdjustment, warmthAdjustment * H(25))

(***************************************************************************)
(* Catalog access and per-zone candidate generation                        *)
(***************************************************************************)
\* No catalog entry carries a tempRestriction, so the filter keeps them all.
getAllItems(temp) == CLOTHING_ITEMS

ofZone(items, zone) == SelectSeq(items, LAMBDA item : item.zone = zone)

ofCategory(items, category) ==
  SelectSeq(items, LAMBDA item : item.category = category)

hasKey(items, key) == \E i \in DOMAIN items : items[i].key = key

RECURSIVE sumCLO(_)
\* items.reduce((sum, item) => sum + item.clo, 0)
sumCLO(items) ==
  IF items = <<>> THEN 0 ELSE items[1].clo + sumCLO(Tail(items))

isVulnerable(ageCategory) ==
  ageCategory \in {"elderly", "very-elderly", "infant", "child"}

\* 3 base layers for vulnerable wearers at 5 degrees or colder, else 2.
maxBaseLayersFor(temp, ageCategory) ==
  IF isVulnerable(ageCategory) /\ temp <= Deg(5) THEN 3 ELSE 2

\* The branch is abandoned on entry: a layer count above its limit, or two
\* or more base layers without the t-shirt.
branchSkipped(ctx, currentItems) ==
  /\ ctx.isCore
  /\ LET baseItems == ofCategory(currentItems, "base")
     IN  \/ Len(baseItems) > ctx.maxBaseLayers
         \/ Len(ofCategory(currentItems, "mid")) > 2
         \/ Len(ofCategory(currentItems, "outer")) > 1
         \/ (Len(baseItems) >= 2 /\ ~hasKey(baseItems, "t-shirt"))

\* Extension conditions that stop at one mid layer.
nextSkippedOneMid(ctx, currentItems, nextItem) ==
  /\ ctx.isCore
  /\ LET baseItems == ofCategory(currentItems, "base")
         baseCount == Len(baseItems)
     IN  \/ (nextItem.category = "base" /\ baseCount >= ctx.maxBaseLayers)
         \/ (nextItem.category = "base" /\ baseCount = 1
             /\ ~hasKey(baseItems, "t-shirt") /\ nextItem.key # "t-shirt")
         \/ (nextItem.category = "mid"
             /\ Len(ofCategory(currentItems, "mid")) >= 1)
         \/ (nextItem.category = "outer"
             /\ Len(ofCategory(currentItems, "outer")) >= 1)

\* The `continue` conditions of the extension loop.
nextSkipped(ctx, currentItems, nextItem) ==
  /\ ctx.isCore
  /\ LET baseItems == ofCategory(currentItems, "base")
         baseCount == Len(baseItems)
     IN  \/ (nextItem.category = "base" /\ baseCount >= ctx.maxBaseLayers)
         \/ (nextItem.category = "base" /\ baseCount = 1
             /\ ~hasKey(baseItems, "t-shirt") /\ nextItem.key # "t-shirt")
         \/ (nextItem.category = "mid"
             /\ Len(ofCategory(currentItems, "mid")) >= 2)
         \/ (nextItem.category = "outer"
             /\ Len(ofCategory(currentItems, "outer")) >= 1)

\* currentCLO >= min && currentCLO <= max * 1.3
inWindow(ctx, currentCLO) ==
  currentCLO >= ctx.min /\ currentCLO * 10 <= ctx.max * 13

RECURSIVE recurse(_, _, _, _)
RECURSIVE recurseLoop(_, _, _, _)
\* The depth-first enumeration: the combinations the call records, in the
\* order in which it pushes them.
recurse(ctx, index, currentItems, currentCLO) ==
  IF branchSkipped(ctx, currentItems) THEN <<>>
  ELSE
    LET recorded ==
          IF inWindow(ctx, currentCLO)
            THEN << [items |-> currentItems, clo |-> currentCLO,
                     score |-> Abs(ctx.optimal - currentCLO)] >>
            ELSE <<>>
    IN  IF currentCLO * 10 > ctx.max * 15 \/ index > Len(ctx.items)
          THEN recorded
          ELSE recorded \o recurseLoop(ctx, index, currentItems, currentCLO)

\* for (let i = index; i < items.length; i++) { ... recurse(i + 1, ...) }
recurseLoop(ctx, i, currentItems, currentCLO) ==
  IF i > Len(ctx.items) THEN <<>>
  ELSE
    LET nextItem == ctx.items[i]
    IN  (IF nextSkipped(ctx, currentItems, nextItem) THEN <<>>
         ELSE recurse(ctx, i + 1, Append(currentItems, nextItem),
                      currentCLO + nextItem.clo))
        \o recurseLoop(ctx, i + 1, currentItems, currentCLO)

RECURSIVE mergeByScore(_, _, _)
\* The first n entries of the stable merge of two lists sorted by score.
mergeByScore(left, right, n) ==
  IF n = 0 THEN <<>>
  ELSE IF left = <<>> THEN SubSeq(right, 1, Min2(n, Len(right)))
  ELSE IF right = <<>> THEN SubSeq(left, 1, Min2(n, Len(left)))
  ELSE IF left[1].score <= right[1].score
    THEN <<left[1]>> \o mergeByScore(Tail(left), right, n - 1)
    ELSE <<right[1]>> \o mergeByScore(left, Tail(right), n - 1)

RECURSIVE sortSlice(_, _, _, _)
\* combinations.sort((a, b) => a.score - b.score).slice(0, n) restricted to
\* positions lo..hi: the sort is stable, so the result is the stable merge
\* of the sorted halves, of which only the first n entries are kept.
sortSlice(combinations, n, lo, hi) ==
  IF lo > hi THEN <<>>
  ELSE IF lo = hi THEN SubSeq(combinations, lo, Min2(hi, lo + n - 1))
  ELSE LET mid == (lo + hi) \div 2
       IN  mergeByScore(sortSlice(combinations, n, lo, mid),
                        sortSlice(combinations, n, mid + 1, hi), n)

\* The enumeration of generateZoneCombinations before sorting and slicing.
zoneCandidates(items, requirement, temp, ageCategory) ==
  recurse([items |-> items, min |-> requirement.min, max |-> requirement.max,
           optimal |-> requirement.optimal,
           maxBaseLayers |-> maxBaseLayersFor(temp, ageCategory),
           isCore |-> \E i \in DOMAIN items : items[i].zone = "core"],
          1, <<>>, 0)

MaxZoneCombinations == 30

\* The truncation without the sort.
sliceUnsorted(combinations, n) ==
  SubSeq(combinations, 1, Min2(n, Len(combinations)))

\* combinations.sort((a, b) => a.score - b.score).slice(0, n)
sortAndSlice(combinations, n) ==
  sortSlice(combinations, n, 1, Len(combinations))

generateZoneCombinations(items, requirement, temp, ageCategory) ==
  IF requirement.max = 0 THEN << [items |-> <<>>, clo |-> 0] >>
  ELSE sortAndSlice(zoneCandidates(items, requirement, temp, ageCategory),
                    MaxZoneCombinations)

(***************************************************************************)
(* Outfit composition                                                      *)
(***************************************************************************)
MaxCoreCandidates == 20

MaxAccessoryCandidates == 3

headOf(seq, n) == SubSeq(seq, 1, Min2(n, Len(seq)))

\* generateZoneCombinations(...).slice(0, n) for one zone of the catalog.
zoneCombos(allItems, zone, requirement, temp, ageCategory, n) ==
  headOf(generateZoneCombinations(ofZone(allItems, zone), requirement, temp,
                                  ageCategory), n)

\* The outfit the innermost loop body pushes.
outfitOf(core, head, hands, neck, feet) ==
  [core |-> core.items, head |-> head.items, hands |-> hands.items,
   neck |-> neck.items, feet |-> feet.items,
   totalCLO |-> core.clo + head.clo + hands.clo + neck.clo + feet.clo,
   coreCLO |-> core.clo,
   meetsRequirements |-> TRUE]

\* Outfit j + 1 of the traversal core > head > hands > neck > feet.
outfitAt(j, coreCombos, headCombos, handsCombos, neckCombos, feetCombos, nh, nha, nn, nf) ==
  outfitOf(coreCombos[(j \div (nh * nha * nn * nf)) + 1],
           headCombos[((j \div (nha * nn * nf)) % nh) + 1],
           handsCombos[((j \div (nn * nf)) % nha) + 1],
           neckCombos[((j \div nf) % nn) + 1],
           feetCombos[(j % nf) + 1])

\* The nested loops with the early return once maxCombinations outfits
\* exist: the check follows the push, so a non-empty product yields at
\* least one outfit.
nestedLoops(coreCombos, headCombos, handsCombos, neckCombos, feetCombos, maxCombinations) ==
  [k \in 1..Min2(Len(coreCombos) * Len(headCombos) * Len(handsCombos)
                   * Len(neckCombos) * Len(feetCombos),
                 Max2(maxCombinations, 1)) |->
     outfitAt(k - 1, coreCombos, headCombos, handsCombos, neckCombos,
              feetCombos, Len(headCombos), Len(handsCombos),
              Len(neckCombos), Len(feetCombos))]

composeZones(allItems, requirements, maxCombinations, temp, ageCategory) ==
  nestedLoops(
    zoneCombos(allItems, "core", requirements.core, temp, ageCategory,
               MaxCoreCandidates),
    zoneCombos(allItems, "head", requirements.head, temp, ageCategory,
               MaxAccessoryCandidates),
    zoneCombos(allItems, "hands", requirements.hands, temp, ageCategory,
               MaxAccessoryCandidates),
    zoneCombos(allItems, "neck", requirements.neck, temp, ageCategory,
               MaxAccessoryCandidates),
    zoneCombos(allItems, "feet", requirements.feet, temp, ageCategory,
               MaxAccessoryCandidates),
    maxCombinations)

findCombinations(requirements, maxCombinations, temp, ageCategory) ==
  composeZones(getAllItems(temp), requirements, maxCombinations, temp,
               ageCategory)

(***************************************************************************)
(* Wearability validation                                                  *)
(***************************************************************************)
Infinity == 2147483647

\* (temp + 15) / 30 * c, for c hundredths of a CLO.
tempScaled(temp, c) == ((temp + Deg(15)) * H(c)) \div (30 * TempDen)

\* The ceilings at their -15 degree values, whatever the temperature.
getMaxMidCLOUnscaled(outerCLO, temp) ==
  IF outerCLO >= H(49) THEN H(100)
  ELSE IF outerCLO >= H(37) THEN H(95)
  ELSE Infinity

getMaxMidCLOForOuter(outerCLO, temp) ==
  IF outerCLO >= H(49)
    THEN Max2(H(50), Min2(H(100), H(100) - tempScaled(temp, 50)))
  ELSE IF outerCLO >= H(37)
    THEN Max2(H(55), Min2(H(95), H(95) - tempScaled(temp, 40)))
  ELSE Infinity

hasRedundantMidLayers(midItems) ==
  hasKey(midItems, "jumper") /\ hasKey(midItems, "thick-jumper")

hasTooManyHeavyMidLayers(midItems) ==
  Len(SelectSeq(midItems,
        LAMBDA item : item.key \in {"thick-jumper", "fleece", "hoodie"})) > 2

\* The reason of the rejection, "" when the base layers are valid.
hasValidBaseLayers(baseItems, maxBaseLayers) ==
  IF Len(baseItems) > maxBaseLayers THEN "Too many base layers"
  ELSE IF Len(baseItems) >= 2 /\ ~hasKey(baseItems, "t-shirt")
    THEN "base layers without t-shirt foundation"
  ELSE IF hasKey(baseItems, "tank-top") /\ Len(baseItems) = 1
    THEN "Vest cannot be worn alone (needs t-shirt or long-sleeve top)"
  ELSE ""

\* isValidCombination(combination, true, temp, ageCategory).reason, ""
\* when the combination is accepted.
rejectionReason(combination, temp, ageCategory) ==
  LET baseItems == ofCategory(combination.core, "base")
      midItems == ofCategory(combination.core, "mid")
      outerItems == ofCategory(combination.core, "outer")
      midCLO == sumCLO(midItems)
      outerCLO == sumCLO(outerItems)
      maxBaseLayers == maxBaseLayersFor(temp, ageCategory)
      baseValidation == hasValidBaseLayers(baseItems, maxBaseLayers)
  IN  IF Len(outerItems) > 1 THEN "Multiple outer layers"
      ELSE IF Len(midItems) > 2 THEN "Too many mid-layers (>2)"
      ELSE IF baseValidation # "" THEN baseValidation
      ELSE IF hasRedundantMidLayers(midItems)
        THEN "Jumper and thick-jumper together (redundant)"
      ELSE IF hasTooManyHeavyMidLayers(midItems)
        THEN "Too many heavy mid-layers (bulky)"
      ELSE IF midCLO > getMaxMidCLOForOuter(outerCLO, temp)
        THEN "Excessive mid-layers for outer layer"
      ELSE IF /\ temp < Deg(2)
              /\ outerCLO = 0
              /\ midCLO > H(50) + ((Deg(2) - temp) * H(5)) \div TempDen
        THEN "Heavy mid-layers need outer layer in cold weather"
      ELSE IF /\ Len(midItems) >= 3
              /\ Len(outerItems) >= 1
              /\ \E i \in DOMAIN midItems : midItems[i].clo > H(20)
        THEN "Too many mid-layers with outer (bulky)"
      ELSE ""

isValidCombination(combination, temp, ageCategory) ==
  rejectionReason(combination, temp, ageCategory) = ""

(***************************************************************************)
(* Practicality score                                                      *)
(***************************************************************************)
allItemsOf(combination) ==
  combination.core \o combination.head \o combination.hands
    \o combination.neck \o combination.feet

\* ITEM_FREQUENCY[key] || 0.5, in tenths.
ITEM_FREQUENCY(key) ==
  CASE key = "t-shirt" -> 13
    [] key = "vest" -> 10
    [] key = "long-sleeve-top" -> 9
    [] key = "jumper" -> 12
    [] key = "coat" -> 8
    [] key = "vest-top" -> 6
    [] key = "cardigan" -> 5
    [] key = "hoodie" -> 9
    [] key = "thermal-top" -> 5
    [] key = "fleece" -> 10
    [] key = "thick-jumper" -> 9
    [] key = "thick-shirt" -> 8
    [] key = "turtleneck" -> 5
    [] key = "light-jacket" -> 7
    [] key = "winter-coat" -> 6
    [] key = "heavy-winter-coat" -> 4
    [] key = "hat" -> 8
    [] key = "warm-hat" -> 7
    [] key = "balaclava" -> 3
    [] key = "gloves" -> 8
    [] key = "insulated-gloves" -> 6
    [] key = "mittens" -> 5
    [] key = "scarf" -> 8
    [] key = "thick-scarf" -> 6
    [] key = "thick-socks" -> 6
    [] key = "thermal-socks" -> 5
    [] OTHER -> 5

RECURSIVE sumFrequency(_)
\* Sum of frequency * PRACTICALITY_WEIGHTS.commonItems (1.5), in twentieths.
sumFrequency(items) ==
  IF items = <<>> THEN 0
  ELSE ITEM_FREQUENCY(items[1].key) * 3 + sumFrequency(Tail(items))

\* The additive part of the score without the closeness term, in twentieths
\* of a point.
scoreTwentieths(combination) ==
  LET allItems == allItemsOf(combination)
      core == combination.core
      hasBase == \E i \in DOMAIN core : core[i].category = "base"
      hasMid == \E i \in DOMAIN core : core[i].category = "mid"
      hasOuter == \E i \in DOMAIN core : core[i].category = "outer"
      layering ==
        IF hasBase /\ hasMid /\ hasOuter THEN 120
        ELSE IF (hasBase /\ hasMid) \/ (hasBase /\ hasOuter)
                \/ (hasMid /\ hasOuter) THEN 60
        ELSE 0
      cats == {<<core[i].category, core[i].zone>> : i \in DOMAIN core}
      count(c) ==
        Cardinality({i \in DOMAIN core : <<core[i].category, core[i].zone>> = c})
      redundancyOf(c) == IF count(c) <= 1 THEN 50 ELSE -50 * (count(c) - 1)
      RECURSIVE sumOver(_)
      sumOver(S) ==
        IF S = {} THEN 0
        ELSE LET c == CHOOSE x \in S : TRUE
             IN  redundancyOf(c) + sumOver(S \ {c})
      hasTShirt == hasKey(core, "t-shirt")
      hasThermal == hasKey(core, "thermal-top")
  IN  2000 + (10 - Len(allItems)) * 40 + sumFrequency(allItems) + layering
        + sumOver(cats) + (IF hasTShirt THEN 500 ELSE 0)
        + (IF hasTShirt /\ hasThermal THEN 300 ELSE 0)

\* The score as a fraction num / den: the additive part plus
\* 100 / (1 + |coreCLO - targetOptimal| * 10).
calculatePracticalityScore(combination) ==
  LET k == Abs(combination.coreCLO - combination.targetOptimal)
      d == (Scale \div 10) + k
  IN  [num |-> scoreTwentieths(combination) * d + 200 * Scale, den |-> 20 * d]

veryCommonItems ==
  {"t-shirt", "jumper", "hoodie", "fleece", "coat", "long-sleeve-top",
   "light-jacket"}

countCommonItems(combination) ==
  LET allItems == allItemsOf(combination)
  IN  Cardinality({i \in DOMAIN allItems : allItems[i].key \in veryCommonItems})

(***************************************************************************)
(* Ranking                                                                 *)
(***************************************************************************)
RECURSIVE cmpFrac(_, _, _, _)
\* The sign of p/q - r/s for positive fractions, without multiplying across.
cmpFrac(p, q, r, s) ==
  LET a == p \div q
      c == r \div s
      pr == p % q
      rr == r % s
  IN  IF a # c THEN (IF a < c THEN -1 ELSE 1)
      ELSE IF pr = 0 /\ rr = 0 THEN 0
      ELSE IF pr = 0 THEN -1
      ELSE IF rr = 0 THEN 1
      ELSE cmpFrac(s, rr, q, pr)

\* The comparator of the ranking sort: negative when a goes first.
compareCombinations(a, b) ==
  LET x == a.practicalityScore
      y == b.practicalityScore
      \* |scoreDiff| <= 5 for scoreDiff = y - x
      close == /\ cmpFrac(y.num, y.den, x.num + 5 * x.den, x.den) <= 0
               /\ cmpFrac(x.num, x.den, y.num + 5 * y.den, y.den) <= 0
  IN  IF close THEN b.commonItemsCount - a.commonItemsCount
      ELSE cmpFrac(y.num, y.den, x.num, x.den)

reverseSeq(seq) == [i \in 1..Len(seq) |-> seq[Len(seq) + 1 - i]]

RECURSIVE extendRun(_, _, _)
\* Length of the run that starts the array (ascending, or strictly
\* descending), found from position idx on.
extendRun(arr, idx, descending) ==
  IF idx > Len(arr) THEN Len(arr)
  ELSE LET order == compareCombinations(arr[idx], arr[idx - 1])
       IN  IF (descending /\ order >= 0) \/ (~descending /\ order < 0)
             THEN idx - 1
             ELSE extendRun(arr, idx + 1, descending)

RECURSIVE binarySearch(_, _, _, _)
binarySearch(arr, pivot, left, right) ==
  IF left >= right THEN left
  ELSE LET mid == left + ((right - left) \div 2)
       IN  IF compareCombinations(pivot, arr[mid]) < 0
             THEN binarySearch(arr, pivot, left, mid)
             ELSE binarySearch(arr, pivot, mid + 1, right)

RECURSIVE binaryInsertion(_, _)
binaryInsertion(arr, start) ==
  IF start > Len(arr) THEN arr
  ELSE LET pivot == arr[start]
           left == binarySearch(arr, pivot, 1, start)
       IN  binaryInsertion(
             SubSeq(arr, 1, left - 1) \o <<pivot>>
               \o SubSeq(arr, left, start - 1)
               \o SubSeq(arr, start + 1, Len(arr)),
             start + 1)

\* Array.prototype.sort as a run-detecting binary insertion sort (an array
\* of fewer than 64 elements is one run).
sortBinaryInsertion(arr) ==
  IF Len(arr) < 2 THEN arr
  ELSE LET descending == compareCombinations(arr[2], arr[1]) < 0
           run == extendRun(arr, 3, descending)
           made == IF descending
                     THEN reverseSeq(SubSeq(arr, 1, run))
                          \o SubSeq(arr, run + 1, Len(arr))
                     ELSE arr
       IN  binaryInsertion(made, run + 1)

RECURSIVE insertLinear(_, _, _)
\* Position behind the last entry of sorted[1..j] that is not after item.
insertLinear(sorted, item, j) ==
  IF j = 0 \/ compareCombinations(sorted[j], item) <= 0 THEN j + 1
  ELSE insertLinear(sorted, item, j - 1)

RECURSIVE insertionSort(_, _)
insertionSort(arr, sorted) ==
  IF arr = <<>> THEN sorted
  ELSE LET item == arr[1]
           pos == insertLinear(sorted, item, Len(sorted))
       IN  insertionSort(Tail(arr),
             SubSeq(sorted, 1, pos - 1) \o <<item>>
               \o SubSeq(sorted, pos, Len(sorted)))

RECURSIVE mergeRuns(_, _)
mergeRuns(left, right) ==
  IF left = <<>> THEN right
  ELSE IF right = <<>> THEN left
  ELSE IF compareCombinations(left[1], right[1]) <= 0
    THEN <<left[1]>> \o mergeRuns(Tail(left), right)
    ELSE <<right[1]>> \o mergeRuns(left, Tail(right))

\* Two adjacent runs already in order are left as they are.
mergeWindows(left, right) ==
  IF right = <<>> \/ compareCombinations(left[Len(left)], right[1]) <= 0
    THEN left \o right
    ELSE mergeRuns(left, right)

RECURSIVE mergePass(_, _, _)
mergePass(arr, windowSize, start) ==
  IF start > Len(arr) THEN <<>>
  ELSE mergeWindows(
         SubSeq(arr, start, Min2(start + windowSize - 1, Len(arr))),
         SubSeq(arr, start + windowSize,
                Min2(start + 2 * windowSize - 1, Len(arr))))
       \o mergePass(arr, windowSize, start + 2 * windowSize)

RECURSIVE mergePasses(_, _)
mergePasses(arr, windowSize) ==
  IF windowSize >= Len(arr) THEN arr
  ELSE mergePasses(mergePass(arr, windowSize, 1), 2 * windowSize)

RECURSIVE sortWindows(_, _)
sortWindows(arr, start) ==
  IF start > Len(arr) THEN <<>>
  ELSE insertionSort(SubSeq(arr, start, Min2(start + 3, Len(arr))), <<>>)
       \o sortWindows(arr, start + 4)

\* Array.prototype.sort as a bottom-up merge sort over insertion-sorted
\* windows of 4 (plain insertion sort below 24 elements).
sortMerge(arr) ==
  IF Len(arr) < 24 THEN insertionSort(arr, <<>>)
  ELSE mergePasses(sortWindows(arr, 1), 4)

\* The sort procedures of the JavaScript engines the application runs on.
\* The ranking comparator is not a consistent comparator, and the language
\* then leaves the resulting order to the implementation.
SortImpls == {"binaryInsertion", "merge"}

sortCombinations(arr, sortImpl) ==
  IF sortImpl = "merge" THEN sortMerge(arr) ELSE sortBinaryInsertion(arr)

(***************************************************************************)
(* Diversity selection                                                     *)
(***************************************************************************)
keysOf(items) == {items[i].key : i \in DOMAIN items}

countCategory(core, cat) ==
  Cardinality({i \in DOMAIN core : core[i].category = cat})

\* differentItems: the keys in exactly one of the two outfits.
differentItems(keys1, keys2) ==
  Cardinality(keys1) + Cardinality(keys2) - 2 * Cardinality(keys1 \cap keys2)

layerDiff(core1, core2) ==
  Abs(countCategory(core1, "base") - countCategory(core2, "base"))
  + Abs(countCategory(core1, "mid") - countCategory(core2, "mid"))
  + Abs(countCategory(core1, "outer") - countCategory(core2, "outer"))

categoryCLO(core, cat) == sumCLO(ofCategory(core, cat))

cloDiff(core1, core2) ==
  Abs(categoryCLO(core1, "base") - categoryCLO(core2, "base"))
  + Abs(categoryCLO(core1, "mid") - categoryCLO(core2, "mid"))
  + Abs(categoryCLO(core1, "outer") - categoryCLO(core2, "outer"))

diversityOf(combo1, combo2, allItems1, allItems2) ==
  Abs(Len(allItems1) - Len(allItems2)) * 20 * Scale
    + differentItems(keysOf(allItems1), keysOf(allItems2)) * 10 * Scale
    + layerDiff(combo1.core, combo2.core) * 15 * Scale
    + cloDiff(combo1.core, combo2.core) * 30
    + (IF (combo1.head # <<>>) # (combo2.head # <<>>) THEN 5 * Scale ELSE 0)
    + (IF (combo1.hands # <<>>) # (combo2.hands # <<>>) THEN 5 * Scale ELSE 0)

\* The diversity of two outfits, in units of 1/Scale.
calculateDiversity(combo1, combo2) ==
  diversityOf(combo1, combo2, allItemsOf(combo1), allItemsOf(combo2))

RECURSIVE pickMostDifferent(_, _, _, _, _)
\* The loop of the second pick: position of the first outfit from i on whose
\* diversity from the first pick beats maxDiversity (0 = none found).
pickMostDifferent(combos, first, i, maxDiversity, mostDifferent) ==
  IF i > Len(combos) THEN mostDifferent
  ELSE LET diversity == calculateDiversity(combos[first], combos[i])
       IN  IF diversity > maxDiversity
             THEN pickMostDifferent(combos, first, i + 1, diversity, i)
             ELSE pickMostDifferent(combos, first, i + 1, maxDiversity,
                                    mostDifferent)

\* selected.includes(combo): outfits are objects, compared by identity; an
\* object is identified by its position in the list handed to the selector.
alreadySelected(picked, i) == \E k \in DOMAIN picked : picked[k] = i

RECURSIVE pickThird(_, _, _, _, _)
pickThird(combos, picked, i, maxTotalDiversity, thirdPick) ==
  IF i > Len(combos) THEN thirdPick
  ELSE IF alreadySelected(picked, i)
    THEN pickThird(combos, picked, i + 1, maxTotalDiversity, thirdPick)
  ELSE LET totalDiversity ==
             calculateDiversity(combos[picked[1]], combos[i])
             + calculateDiversity(combos[picked[2]], combos[i])
       IN  IF totalDiversity > maxTotalDiversity
             THEN pickThird(combos, picked, i + 1, totalDiversity, i)
             ELSE pickThird(combos, picked, i + 1, maxTotalDiversity,
                            thirdPick)

\* selected after the second pick.
withSecond(mostDifferent) ==
  IF mostDifferent # 0 THEN <<1, mostDifferent>> ELSE <<1>>

\* The third pick is dropped.
keepTwo(picked, thirdPick) == picked

\* selected after the third pick.
appendThird(picked, thirdPick) ==
  IF thirdPick # 0 THEN Append(picked, thirdPick) ELSE picked

withThird(combos, picked) ==
  appendThird(picked,
              IF Len(combos) > 2 THEN pickThird(combos, picked, 2, -Scale, 0)
              ELSE 0)

\* The positions, in the list given, of the outfits the selector returns.
selectDiverseCombinations(combos) ==
  IF Len(combos) = 0 THEN <<>>
  ELSE IF Len(combos) = 1 THEN <<1>>
  ELSE withThird(combos, withSecond(pickMostDifferent(combos, 1, 2, -Scale, 0)))

(***************************************************************************)
(* Recommendation                                                          *)
(***************************************************************************)
MaxCombinations == 50

keepAll(combinations, temp, ageCategory) == combinations

\* Step 3 of getRecommendations: the combinations the validator accepts.
filterValid(combinations, temp, ageCategory) ==
  SelectSeq(combinations, LAMBDA c : isValidCombination(c, temp, ageCategory))

\* Step 4: the fields attached to each valid combination.
attachScore(combo, requirements) ==
  LET withTarget ==
        [core |-> combo.core, head |-> combo.head, hands |-> combo.hands,
         neck |-> combo.neck, feet |-> combo.feet,
         totalCLO |-> combo.totalCLO, coreCLO |-> combo.coreCLO,
         meetsRequirements |-> combo.meetsRequirements,
         targetOptimal |-> requirements.core.optimal]
  IN  [core |-> combo.core, head |-> combo.head, hands |-> combo.hands,
       neck |-> combo.neck, feet |-> combo.feet,
       totalCLO |-> combo.totalCLO, coreCLO |-> combo.coreCLO,
       meetsRequirements |-> combo.meetsRequirements,
       targetOptimal |-> requirements.core.optimal,
       practicalityScore |-> calculatePracticalityScore(withTarget),
       requirements |-> requirements,
       commonItemsCount |-> countCommonItems(combo)]

\* Step 4 over the whole list.
scoreAll(valid, requirements) ==
  [i \in 1..Len(valid) |-> attachScore(valid[i], requirements)]

\* Steps 2 to 5 against a requirement set.
rankAgainst(requirements, temp, ageCategory, sortImpl) ==
  sortCombinations(
    scoreAll(filterValid(findCombinations(requirements, MaxCombinations,
                                          temp, ageCategory),
                         temp, ageCategory),
             requirements),
    sortImpl)

\* Steps 1 to 5: the ranked list of valid combinations.
rankedCombinations(temp, ageCategory, gender, warmthAdjustment, sortImpl) ==
  rankAgainst(computeRequirements(temp, ageCategory, gender, warmthAdjustment),
              temp, ageCategory, sortImpl)

\* The ranked list, the positions the selector picked, and the outfits
\* returned.
traceWith(ranked, diverse) ==
  [ranked |-> ranked, diverse |-> diverse,
   result |-> [k \in 1..Len(diverse) |-> ranked[diverse[k]]]]

\* Step 6 on the ranked list.
traceOf(ranked) == traceWith(ranked, selectDiverseCombinations(ranked))

recommendationTrace(temp, ageCategory, gender, warmthAdjustment, sortImpl) ==
  traceOf(rankedCombinations(temp, ageCategory, gender, warmthAdjustment,
                             sortImpl))

getRecommendations(temp, ageCategory, gender, warmthAdjustment, sortImpl) ==
  recommendationTrace(temp, ageCategory, gender, warmthAdjustment, sortImpl).result

(***************************************************************************)
(* Substitutes                                                             *)
(***************************************************************************)
RECURSIVE insertByKey(_, _, _)
\* Position of entry e in the stably sorted list: behind every entry whose
\* sort key is not greater.
insertByKey(sorted, e, j) ==
  IF j = 0 \/ sorted[j].sortKey <= e.sortKey THEN j + 1
  ELSE insertByKey(sorted, e, j - 1)

RECURSIVE stableSort(_, _)
\* Array.prototype.sort with a consistent numeric comparator: ascending in
\* sortKey, equal keys in their original order.
stableSort(list, sorted) ==
  IF list = <<>> THEN sorted
  ELSE LET e == list[1]
           pos == insertByKey(sorted, e, Len(sorted))
       IN  stableSort(Tail(list),
             SubSeq(sorted, 1, pos - 1) \o <<e>> \o SubSeq(sorted, pos, Len(sorted)))

\* Every other accessory of the catalog.
anyAccessory(key) == {it.key : it \in {x \in ItemSet : x.zone # "core"}} \ {key}

\* accessoryGroups[key] || []
accessoryGroups(key) ==
  CASE key = "scarf" -> {"thick-scarf", "balaclava", "neck-warmer"}
    [] key = "thick-scarf" -> {"scarf", "balaclava", "neck-warmer"}
    [] key = "balaclava" -> {"scarf", "thick-scarf", "neck-warmer"}
    [] key = "neck-warmer" -> {"scarf", "thick-scarf", "balaclava"}
    [] key = "hat" -> {"warm-hat"}
    [] key = "warm-hat" -> {"hat"}
    [] key = "gloves" -> {"insulated-gloves", "mittens"}
    [] key = "insulated-gloves" -> {"gloves", "mittens"}
    [] key = "mittens" -> {"gloves", "insulated-gloves"}
    [] key = "thermal-socks" -> {"thick-socks", "double-socks"}
    [] key = "thick-socks" -> {"thermal-socks", "double-socks"}
    [] OTHER -> {}

DefaultTemp == 10

\* The core garments of the category of the garment replaced, itself
\* excluded.
\* Candidates of any category.
anyCategory(allItems, itemToReplace) ==
  SelectSeq(allItems, LAMBDA item :
    /\ item.zone = "core"
    /\ item.key # itemToReplace.key)

sameCategory(allItems, itemToReplace) ==
  SelectSeq(allItems, LAMBDA item :
    /\ item.zone = "core"
    /\ item.category = itemToReplace.category
    /\ item.key # itemToReplace.key)

\* The candidates without the insulation window.
unfilteredSubstitutes(candidates, cloWithoutItem, requirements) == candidates

\* newCLO >= requirements.core.min * 0.9 && newCLO <= requirements.core.max * 1.3
validSubstitutes(candidates, cloWithoutItem, requirements) ==
  SelectSeq(candidates, LAMBDA substitute :
    /\ (cloWithoutItem + substitute.clo) * 10 >= requirements.core.min * 9
    /\ (cloWithoutItem + substitute.clo) * 10 <= requirements.core.max * 13)

\* The distance from the optimal core CLO the sort orders by.
byDistance(substitutes, cloWithoutItem, optimal) ==
  [i \in DOMAIN substitutes |->
     [item |-> substitutes[i],
      sortKey |-> Abs((cloWithoutItem + substitutes[i].clo) - optimal)]]

\* .slice(0, 5)
topFive(sorted) == [i \in 1..Min2(5, Len(sorted)) |-> sorted[i].item]

coreSubstitutes(candidates, cloWithoutItem, requirements) ==
  topFive(stableSort(
            byDistance(validSubstitutes(candidates, cloWithoutItem,
                                        requirements),
                       cloWithoutItem, requirements.core.optimal),
            <<>>))

accessorySubstitutes(allItems, itemToReplace) ==
  SelectSeq(allItems, LAMBDA item :
    item.key \in accessoryGroups(itemToReplace.key))

findSubstitutes(currentRecommendation, itemToReplace, temp) ==
  IF itemToReplace.zone = "core"
    THEN coreSubstitutes(
           sameCategory(getAllItems(temp), itemToReplace),
           sumCLO(currentRecommendation.core) - itemToReplace.clo,
           currentRecommendation.requirements)
    ELSE accessorySubstitutes(getAllItems(temp), itemToReplace)

(***************************************************************************)
(* Substitution.  replaceItem works on arrays it reaches through            *)
(* references: the arrays of the outfit it is given are 1..5 (core, head,   *)
(* hands, neck, feet) and the arrays of its copy are 6..10.                 *)
(***************************************************************************)
zoneRef(zone) ==
  CASE zone = "core" -> 1
    [] zone = "head" -> 2
    [] zone = "hands" -> 3
    [] zone = "neck" -> 4
    [] OTHER -> 5

sharedArrayRef(ref) == ref

\* core: [...currentRecommendation.core], ...: the array the copy holds for
\* the array ref of the outfit given.
copiedArrayRef(ref) == ref + 5

updatedRef(zone) == copiedArrayRef(zoneRef(zone))

\* findIndex(item => item.key === key), 0 when there is none.
findIndex(items, key) ==
  IF hasKey(items, key)
    THEN CHOOSE i \in DOMAIN items :
           items[i].key = key /\ \A j \in 1..(i - 1) : items[j].key # key
    ELSE 0

keepItems(arrays, ref, key) == arrays

\* findIndex and splice(idx, 1) on the array ref.
spliceByKey(arrays, ref, key) ==
  LET idx == findIndex(arrays[ref], key)
  IN  IF idx # 0
        THEN [arrays EXCEPT ![ref] =
               SubSeq(@, 1, idx - 1) \o SubSeq(@, idx + 1, Len(@))]
        ELSE arrays

push(arrays, ref, item) == [arrays EXCEPT ![ref] = Append(@, item)]

zoneCLO(arrays, zone) == sumCLO(arrays[updatedRef(zone)])

totalOf(arrays) ==
  zoneCLO(arrays, "core") + zoneCLO(arrays, "head") + zoneCLO(arrays, "hands")
    + zoneCLO(arrays, "neck") + zoneCLO(arrays, "feet")

\* The entries of one zone of the copy for the removal after an upgrade,
\* each with the sort key of its zone.
entriesOf(arrays, zone, sortKey) ==
  [i \in DOMAIN arrays[updatedRef(zone)] |->
     [item |-> arrays[updatedRef(zone)][i], zone |-> zone,
      sortKey |-> sortKey]]

\* The entries of one zone of the copy for the rebalancing, sorted by their
\* insulation.
entriesByCLO(arrays, zone) ==
  [i \in DOMAIN arrays[updatedRef(zone)] |->
     [item |-> arrays[updatedRef(zone)][i], zone |-> zone,
      sortKey |-> arrays[updatedRef(zone)][i].clo]]

bothOuter(oldItem, newItem) ==
  oldItem.category = "outer" /\ newItem.category = "outer"

RECURSIVE removeEveryAccessory(_, _, _, _, _)
\* The loop without its stop at coreMax * 1.05.
removeEveryAccessory(arrays, removable, i, currentCoreCLO, coreMax) ==
  IF i > Len(removable) THEN arrays
  ELSE removeEveryAccessory(
         spliceByKey(arrays, updatedRef(removable[i].zone),
                     removable[i].item.key),
         removable, i + 1, currentCoreCLO, coreMax)

RECURSIVE removeAccessories(_, _, _, _, _)
\* The loop that takes accessories off after a warmer coat came in; each
\* removal counts for 0.3 of the accessory's insulation.
removeAccessories(arrays, removable, i, currentCoreCLO, coreMax) ==
  IF i > Len(removable) \/ currentCoreCLO * 100 <= coreMax * 105 THEN arrays
  ELSE LET accessory == removable[i]
           ref == updatedRef(accessory.zone)
       IN  IF findIndex(arrays[ref], accessory.item.key) # 0
             THEN removeAccessories(
                    spliceByKey(arrays, ref, accessory.item.key), removable,
                    i + 1, currentCoreCLO - ((accessory.item.clo * 3) \div 10),
                    coreMax)
             ELSE removeAccessories(arrays, removable, i + 1, currentCoreCLO,
                                    coreMax)

\* CASE 1 of the outer swap: a warmer or heavy coat.
upgradeOuter(arrays, requirements, oldItem, newItem) ==
  LET cloChange == newItem.clo - oldItem.clo
      coreCLO == zoneCLO(arrays, "core")
      coreMax == requirements.core.max
      overMin(zone) == zoneCLO(arrays, zone) - requirements[zone].min
      entries(zone) == entriesOf(arrays, zone, -overMin(zone))
      removableAccessories ==
        stableSort(entries("head") \o entries("neck") \o entries("hands")
                     \o entries("feet"), <<>>)
  IN  IF /\ bothOuter(oldItem, newItem)
         /\ (cloChange >= H(15) \/ newItem.clo >= H(45))
         /\ coreCLO * 10 > coreMax * 11
        THEN removeAccessories(arrays, removableAccessories, 1, coreCLO, coreMax)
        ELSE arrays

\* CASE 2 of the outer swap: a lighter coat.
downgradeOuter(arrays, requirements, oldItem, newItem) ==
  LET cloChange == newItem.clo - oldItem.clo
      coreCLO == zoneCLO(arrays, "core")
      coreMin == requirements.core.min
      empty(zone) == arrays[updatedRef(zone)] = <<>>
      withScarf ==
        IF empty("neck") /\ requirements.neck.max > 0
          THEN push(arrays, updatedRef("neck"), ItemOf("scarf")) ELSE arrays
      withGloves ==
        IF empty("hands") /\ requirements.hands.max > 0
           /\ coreCLO + H(5) < coreMin
          THEN push(withScarf, updatedRef("hands"), ItemOf("gloves"))
          ELSE withScarf
      withHat ==
        IF empty("head") /\ requirements.head.max > 0
           /\ coreCLO + H(10) < coreMin
          THEN push(withGloves, updatedRef("head"), ItemOf("hat"))
          ELSE withGloves
  IN  IF bothOuter(oldItem, newItem) /\ cloChange <= -H(15) /\ coreCLO < coreMin
        THEN withHat
        ELSE arrays

keepTotals(updated) == updated

\* updated.totalCLO and updated.coreCLO summed anew from the arrays.
recalculate(updated) ==
  [updated EXCEPT !.totalCLO = totalOf(updated.arrays),
                  !.coreCLO = zoneCLO(updated.arrays, "core")]

\* Trigger rebalance if more than 0.20 CLO away from optimal.
threshold == H(20)

RECURSIVE removeOneItem(_, _, _, _)
\* A removal that takes the first garment of the core.
removeFirstGarment(updated, removableItems, i, optimal) ==
  IF updated.arrays[updatedRef("core")] = <<>> THEN updated
  ELSE [updated EXCEPT
          !.arrays = spliceByKey(@, updatedRef("core"),
                                 @[updatedRef("core")][1].key)]

\* Too warm: the first removable item whose removal brings coreCLO closer
\* to optimal without undershooting is removed, and the loop ends.
removeOneItem(updated, removableItems, i, optimal) ==
  IF i > Len(removableItems) THEN updated
  ELSE LET e == removableItems[i]
           currentDistance == updated.coreCLO - optimal
           newCoreCLO == updated.coreCLO - e.item.clo
           newDistance == newCoreCLO - optimal
           ref == updatedRef(e.zone)
       IN  IF /\ Abs(newDistance) < Abs(currentDistance)
              /\ newDistance >= -threshold
              /\ findIndex(updated.arrays[ref], e.item.key) # 0
             THEN [updated EXCEPT
                     !.arrays = spliceByKey(updated.arrays, ref, e.item.key),
                     !.coreCLO = newCoreCLO]
             ELSE removeOneItem(updated, removableItems, i + 1, optimal)

RECURSIVE bestAddOf(_, _, _, _, _, _)
\* Too cold: the accessory that brings coreCLO closest to optimal
\* (<<>> when none qualifies).
bestAddOf(possibleAdds, i, coreCLO, optimal, bestDistance, bestAdd) ==
  IF i > Len(possibleAdds) THEN bestAdd
  ELSE LET newDistance == coreCLO + possibleAdds[i].clo - optimal
       IN  IF Abs(newDistance) < bestDistance /\ newDistance <= threshold
             THEN bestAddOf(possibleAdds, i + 1, coreCLO, optimal,
                            Abs(newDistance), <<possibleAdds[i]>>)
             ELSE bestAddOf(possibleAdds, i + 1, coreCLO, optimal,
                            bestDistance, bestAdd)

rebalance(updated, requirements) ==
  LET optimal == requirements.core.optimal
      currentDistance == updated.coreCLO - optimal
      arrays == updated.arrays
      byCLO(zone) == entriesByCLO(arrays, zone)
      mids == SelectSeq(byCLO("core"), LAMBDA e : e.item.category = "mid")
      removableItems ==
        stableSort(mids \o byCLO("head") \o byCLO("hands") \o byCLO("neck")
                     \o byCLO("feet"), <<>>)
      empty(zone) == arrays[updatedRef(zone)] = <<>>
      candidate(zone, key) ==
        IF empty(zone) /\ requirements[zone].max > 0
          THEN << ItemOf(key) >> ELSE <<>>
      possibleAdds ==
        candidate("neck", "scarf") \o candidate("head", "hat")
          \o candidate("hands", "gloves")
      bestAdd == bestAddOf(possibleAdds, 1, updated.coreCLO, optimal,
                           Abs(currentDistance), <<>>)
  IN  IF currentDistance > threshold
        THEN removeOneItem(updated, removableItems, 1, optimal)
      ELSE IF currentDistance < -threshold /\ bestAdd # <<>>
        THEN [updated EXCEPT
                !.arrays = push(arrays, updatedRef(bestAdd[1].zone), bestAdd[1]),
                !.coreCLO = @ + bestAdd[1].clo]
      ELSE updated

\* The five zone lists of the copy.
listsOf(arrays) ==
  [core |-> arrays[updatedRef("core")], head |-> arrays[updatedRef("head")],
   hands |-> arrays[updatedRef("hands")], neck |-> arrays[updatedRef("neck")],
   feet |-> arrays[updatedRef("feet")]]

\* The record of one call of replaceItem: the outfit returned, the outfit
\* that was given as it is after the call, whether the old garment was in
\* the outfit, whether the outer swap or the rebalancing added or removed
\* garments, and the zone lists of the copy after the push of the new
\* garment, after the upgrade case of the outer swap and after the outer
\* swap.
callResult(given, oldFound, added, upgraded, before, final) ==
  [updated |->
     [given EXCEPT !.core = final.arrays[updatedRef("core")],
                   !.head = final.arrays[updatedRef("head")],
                   !.hands = final.arrays[updatedRef("hands")],
                   !.neck = final.arrays[updatedRef("neck")],
                   !.feet = final.arrays[updatedRef("feet")],
                   !.totalCLO = final.totalCLO,
                   !.coreCLO = final.coreCLO],
   original |->
     [given EXCEPT !.core = final.arrays[1], !.head = final.arrays[2],
                   !.hands = final.arrays[3], !.neck = final.arrays[4],
                   !.feet = final.arrays[5]],
   oldFound |-> oldFound,
   adjusted |-> before.arrays # added,
   rebalanced |-> final.arrays # before.arrays,
   pushed |-> listsOf(added),
   upgraded |-> listsOf(upgraded),
   swapped |-> listsOf(before.arrays)]

\* The final recalculation of the totals.
afterRebalance(given, oldFound, added, upgraded, before, rebalanced) ==
  callResult(given, oldFound, added, upgraded, before,
             recalculate(rebalanced))

\* The rebalancing of the copy once its totals are recalculated.
afterRecalculate(given, oldFound, added, upgraded, before) ==
  afterRebalance(given, oldFound, added, upgraded, before,
                 rebalance(before, given.requirements))

\* The recalculation of the totals that follows the outer swap.
afterSwap(given, oldFound, added, upgraded, swapped) ==
  afterRecalculate(given, oldFound, added, upgraded,
                   recalculate([arrays |-> swapped,
                                totalCLO |-> given.totalCLO,
                                coreCLO |-> given.coreCLO]))

\* The downgrade case of the outer swap.
afterUpgrade(given, oldItem, newItem, oldFound, added, upgraded) ==
  afterSwap(given, oldFound, added, upgraded,
            downgradeOuter(upgraded, given.requirements, oldItem, newItem))

\* The outer swap: the upgrade case, then the downgrade case.
afterAdd(given, oldItem, newItem, oldFound, added) ==
  afterUpgrade(given, oldItem, newItem, oldFound, added,
               upgradeOuter(added, given.requirements, oldItem, newItem))

\* A replacement that puts the new garment where the old one was.
afterCopyInPlace(given, oldItem, newItem, given5) ==
  afterAdd(given, oldItem, newItem,
           hasKey(given5[zoneRef(oldItem.zone)], oldItem.key),
           push(spliceByKey(given5 \o given5, updatedRef(oldItem.zone),
                            oldItem.key),
                updatedRef(oldItem.zone), newItem))

\* The copy of the zone arrays, the removal of the old garment from its
\* zone and the push of the new garment onto its zone.
afterCopy(given, oldItem, newItem, given5) ==
  afterAdd(given, oldItem, newItem,
           hasKey(given5[zoneRef(oldItem.zone)], oldItem.key),
           push(spliceByKey(given5 \o given5, updatedRef(oldItem.zone),
                            oldItem.key),
                updatedRef(newItem.zone), newItem))

replaceCall(given, oldItem, newItem) ==
  afterCopy(given, oldItem, newItem,
            <<given.core, given.head, given.hands, given.neck, given.feet>>)

replaceItem(currentOutfit, oldItem, newItem) ==
  replaceCall(currentOutfit, oldItem, newItem).updated

(***************************************************************************)
(* States                                                                  *)
(***************************************************************************)
Temperatures == Deg(TempMin)..Deg(TempMax)

Calibrations == -2..2

\* state.currentRecommendation = null
NoOutfit == [none |-> TRUE]

\* No substitutes asked for yet.
NoSubstitutes == [open |-> FALSE, asked |-> FALSE]

NoRequirements == [none |-> TRUE]

\* No request before the last one.
NoRecommendations == [none |-> TRUE]

\* generateZoneCombinations not called yet.
NoZoneCall == [none |-> TRUE]

\* findCombinations not called yet.
NoCombinationsCall == [none |-> TRUE]

\* isValidCombination not called yet.
NoValidationCall == [none |-> TRUE]

Init ==
  /\ screen = "ageScreen"
  /\ stateTemperature = Deg(DefaultTemp)
  /\ stateAgeCategory = "none"
  /\ stateGender = "none"
  /\ stateWarmth = 0
  /\ stateRequirements = NoRequirements
  /\ prevTemperature = Deg(DefaultTemp)
  /\ prevRequirements = NoRequirements
  /\ validCombinations = <<>>
  /\ selected = <<>>
  /\ recommendations = <<>>
  /\ stateCurrentRecommendation = NoOutfit
  /\ substituteModal = NoSubstitutes
  /\ calls = <<>>
  /\ prevRecommendations = NoRecommendations
  /\ zoneCall = NoZoneCall
  /\ combinationsCall = NoCombinationsCall
  /\ validationCall = NoValidationCall

(***************************************************************************)
(* Requirement queries: the requirement set is computed for one wearer at   *)
(* one temperature and then at a second one.                               *)
(***************************************************************************)
FirstQuery(temp, ageCategory, gender, warmthAdjustment) ==
  /\ screen = "ageScreen"
  /\ screen' = "first"
  /\ prevTemperature' = stateTemperature
  /\ prevRequirements' = stateRequirements
  /\ stateTemperature' = temp
  /\ stateAgeCategory' = ageCategory
  /\ stateGender' = gender
  /\ stateWarmth' = warmthAdjustment
  /\ stateRequirements' =
       computeRequirements(temp, ageCategory, gender, warmthAdjustment)
  /\ UNCHANGED <<combinationsCall, validationCall,
                 prevRecommendations, zoneCall, validCombinations, selected, recommendations,
                 stateCurrentRecommendation, substituteModal, calls>>

\* The same wearer at another temperature.
SecondQuery(temp) ==
  /\ screen = "first"
  /\ screen' = "second"
  /\ prevTemperature' = stateTemperature
  /\ prevRequirements' = stateRequirements
  /\ stateTemperature' = temp
  /\ stateRequirements' =
       computeRequirements(temp, stateAgeCategory, stateGender, stateWarmth)
  /\ UNCHANGED <<combinationsCall, validationCall,
                 prevRecommendations, zoneCall, stateAgeCategory, stateGender, stateWarmth, validCombinations,
                 selected, recommendations, stateCurrentRecommendation,
                 substituteModal, calls>>

\* The age categories of the application and a key ADJUSTMENTS.age lacks.
QueryAges == AgeCategories \cup {"unknown"}

NextReq ==
  \/ /\ screen = "ageScreen"
     /\ \E temp \in Temperatures, ageCategory \in QueryAges,
           gender \in Genders, warmthAdjustment \in Calibrations :
          FirstQuery(temp, ageCategory, gender, warmthAdjustment)
  \/ /\ screen = "first"
     /\ \E temp \in Temperatures : SecondQuery(temp)

SpecReq == Init /\ [][NextReq]_vars

(***************************************************************************)
(* Recommendation requests                                                 *)
(***************************************************************************)
\* The wearer and the temperature are entered (setAge, setGender, the
\* temperature slider), with the calibration offset of the request.
SetProfile(temp, ageCategory, gender, warmthAdjustment) ==
  /\ screen = "ageScreen"
  /\ screen' = "tempScreen"
  /\ stateTemperature' = temp
  /\ stateAgeCategory' = ageCategory
  /\ stateGender' = gender
  /\ stateWarmth' = warmthAdjustment
  /\ UNCHANGED <<combinationsCall, validationCall,
                 prevRecommendations, zoneCall, stateRequirements, prevTemperature, prevRequirements,
                 validCombinations, selected, recommendations,
                 stateCurrentRecommendation, substituteModal, calls>>

\* The engine's getRecommendations, called once for the profile entered.
GetRecommendations(sortImpl) ==
  /\ screen = "tempScreen"
  /\ \E trace \in {recommendationTrace(stateTemperature, stateAgeCategory,
                                       stateGender, stateWarmth, sortImpl)} :
       /\ validCombinations' = trace.ranked
       /\ selected' = trace.diverse
       /\ recommendations' = trace.result
       /\ screen' = IF trace.result = <<>> THEN "noResult" ELSE "resultScreen"
  /\ stateRequirements' =
       computeRequirements(stateTemperature, stateAgeCategory, stateGender,
                           stateWarmth)
  /\ UNCHANGED <<combinationsCall, validationCall,
                 prevRecommendations, zoneCall, stateTemperature, stateAgeCategory, stateGender, stateWarmth,
                 prevTemperature, prevRequirements,
                 stateCurrentRecommendation, substituteModal, calls>>

\* Temperatures of the requests explored.
RecTemperatures == {Deg(d) : d \in {-15, -5, 0, 5, 10, 12, 15, 20}}

RecCalibrations == {-2, 0, 2}

RecGenders == {"male", "female"}

NextRec ==
  \/ /\ screen = "ageScreen"
     /\ \E temp \in RecTemperatures, ageCategory \in AgeCategories,
           gender \in RecGenders, warmthAdjustment \in RecCalibrations :
          SetProfile(temp, ageCategory, gender, warmthAdjustment)
  \/ \E sortImpl \in SortImpls : GetRecommendations(sortImpl)

SpecRec == Init /\ [][NextRec]_vars

(***************************************************************************)
(* Substitution sessions                                                   *)
(***************************************************************************)
\* The application's getRecommendation: the engine is asked for the profile
\* entered and one outfit of its answer becomes state.currentRecommendation
\* (the application takes the first; a caller of the engine may take any).
GetRecommendation(sortImpl) ==
  /\ screen = "tempScreen"
  /\ \E result \in {getRecommendations(stateTemperature, stateAgeCategory,
                                       stateGender, stateWarmth, sortImpl)} :
       IF result = <<>>
         THEN /\ stateCurrentRecommendation' = stateCurrentRecommendation
              /\ screen' = "tempScreen"
         ELSE /\ \E k \in DOMAIN result :
                   stateCurrentRecommendation' = result[k]
              /\ screen' = "resultScreen"
  /\ UNCHANGED <<combinationsCall, validationCall,
                 prevRecommendations, zoneCall, stateTemperature, stateAgeCategory, stateGender, stateWarmth,
                 stateRequirements, prevTemperature, prevRequirements,
                 validCombinations, selected, recommendations,
                 substituteModal, calls>>

\* Accessories a caller may name that the catalog lacks: the two the
\* substitution table names, and one it does not know.  Their insulation is
\* not in the configuration; findSubstitutes does not read it for an
\* accessory.
UnlistedAccessories ==
  { [key |-> "neck-warmer", clo |-> 0, category |-> "accessory", zone |-> "neck"],
    [key |-> "double-socks", clo |-> 0, category |-> "accessory", zone |-> "feet"],
    [key |-> "earmuffs", clo |-> 0, category |-> "accessory", zone |-> "head"] }

\* allItems.find(item => item.key === key), <<>> when there is none.
findItem(outfit, key) ==
  LET allItems == allItemsOf(outfit)
      idx == findIndex(allItems, key)
  IN  IF idx = 0 THEN <<>> ELSE << allItems[idx] >>

\* The engine's findSubstitutes asked for any garment.
FindSubstitutes(itemToReplace) ==
  /\ screen = "resultScreen"
  /\ ~substituteModal.open
  /\ screen' = "substitutes"
  /\ substituteModal' =
       [open |-> FALSE, asked |-> TRUE, item |-> itemToReplace,
        substitutes |-> findSubstitutes(stateCurrentRecommendation,
                                        itemToReplace, DefaultTemp)]
  /\ UNCHANGED <<combinationsCall, validationCall,
                 prevRecommendations, zoneCall, stateTemperature, stateAgeCategory, stateGender, stateWarmth,
                 stateRequirements, prevTemperature, prevRequirements,
                 validCombinations, selected, recommendations,
                 stateCurrentRecommendation, calls>>

\* A garment of the outfit shown is tapped.
ShowSubstituteModal(itemKey) ==
  /\ screen = "resultScreen"
  /\ ~substituteModal.open
  /\ stateCurrentRecommendation # NoOutfit
  /\ findItem(stateCurrentRecommendation, itemKey) # <<>>
  /\ LET itemToReplace == findItem(stateCurrentRecommendation, itemKey)[1]
     IN  substituteModal' =
           [open |-> TRUE, asked |-> TRUE, item |-> itemToReplace,
            substitutes |-> findSubstitutes(stateCurrentRecommendation,
                                            itemToReplace, DefaultTemp)]
  /\ UNCHANGED <<combinationsCall, validationCall,
                 prevRecommendations, zoneCall, screen, stateTemperature, stateAgeCategory, stateGender,
                 stateWarmth, stateRequirements, prevTemperature,
                 prevRequirements, validCombinations, selected,
                 recommendations, stateCurrentRecommendation, calls>>

CloseSubstituteModal ==
  /\ screen = "resultScreen"
  /\ substituteModal.open
  /\ substituteModal' = NoSubstitutes
  /\ UNCHANGED <<combinationsCall, validationCall,
                 prevRecommendations, zoneCall, screen, stateTemperature, stateAgeCategory, stateGender,
                 stateWarmth, stateRequirements, prevTemperature,
                 prevRequirements, validCombinations, selected,
                 recommendations, stateCurrentRecommendation, calls>>

\* The arguments of a replaceItem call next to what the call did.
recordOf(given, oldItem, newItem, call) ==
  [given |-> given, oldItem |-> oldItem, newItem |-> newItem,
   updated |-> call.updated, original |-> call.original,
   oldFound |-> call.oldFound, adjusted |-> call.adjusted,
   rebalanced |-> call.rebalanced, pushed |-> call.pushed,
   upgraded |-> call.upgraded, swapped |-> call.swapped]

\* The record kept of one replaceItem call.
callRecord(given, oldItem, newItem) ==
  recordOf(given, oldItem, newItem, replaceCall(given, oldItem, newItem))

MaxSubstitutions == 2

\* An option of the open modal is tapped: handleSubstitution(old, new).
HandleSubstitution(oldItemKey, newItemKey) ==
  /\ screen = "resultScreen"
  /\ substituteModal.open
  /\ Len(calls) < MaxSubstitutions
  /\ stateCurrentRecommendation # NoOutfit
  /\ findItem(stateCurrentRecommendation, oldItemKey) # <<>>
  /\ LET oldItem == findItem(stateCurrentRecommendation, oldItemKey)[1]
         substitutes ==
           findSubstitutes(stateCurrentRecommendation, oldItem, DefaultTemp)
         idx == findIndex(substitutes, newItemKey)
     IN  /\ idx # 0
         /\ \E call \in {callRecord(stateCurrentRecommendation, oldItem,
                                    substitutes[idx])} :
              /\ stateCurrentRecommendation' = call.updated
              /\ calls' = Append(calls, call)
  /\ substituteModal' = NoSubstitutes
  /\ UNCHANGED <<combinationsCall, validationCall,
                 prevRecommendations, zoneCall, screen, stateTemperature, stateAgeCategory, stateGender,
                 stateWarmth, stateRequirements, prevTemperature,
                 prevRequirements, validCombinations, selected,
                 recommendations>>

\* The engine's replaceItem called on the outfit for any pair of garments.
ReplaceItem(oldItem, newItem) ==
  /\ screen = "resultScreen"
  /\ ~substituteModal.open
  /\ calls = <<>>
  /\ screen' = "replaced"
  /\ \E call \in {callRecord(stateCurrentRecommendation, oldItem, newItem)} :
       /\ stateCurrentRecommendation' = call.updated
       /\ calls' = Append(calls, call)
  /\ UNCHANGED <<combinationsCall, validationCall,
                 prevRecommendations, zoneCall, stateTemperature, stateAgeCategory, stateGender, stateWarmth,
                 stateRequirements, prevTemperature, prevRequirements,
                 validCombinations, selected, recommendations, substituteModal>>

\* The replacement just made is undone by the opposite call.
ReplaceBack ==
  /\ screen = "replaced"
  /\ screen' = "roundTrip"
  /\ \E call \in {callRecord(stateCurrentRecommendation,
                             calls[Len(calls)].newItem,
                             calls[Len(calls)].oldItem)} :
       /\ stateCurrentRecommendation' = call.updated
       /\ calls' = Append(calls, call)
  /\ UNCHANGED <<combinationsCall, validationCall,
                 prevRecommendations, zoneCall, stateTemperature, stateAgeCategory, stateGender, stateWarmth,
                 stateRequirements, prevTemperature, prevRequirements,
                 validCombinations, selected, recommendations, substituteModal>>

SessionTemperatures == {Deg(0), Deg(12)}

SessionAges == {"adult", "infant"}

Next ==
  \/ /\ screen = "ageScreen"
     /\ \E temp \in SessionTemperatures, ageCategory \in SessionAges :
          SetProfile(temp, ageCategory, "female", 0)
  \/ \E sortImpl \in SortImpls : GetRecommendation(sortImpl)
  \/ /\ screen = "resultScreen"
     /\ \E itemToReplace \in ItemSet \cup UnlistedAccessories :
          FindSubstitutes(itemToReplace)
  \/ /\ screen = "resultScreen"
     /\ \E itemKey \in Keys : ShowSubstituteModal(itemKey)
  \/ CloseSubstituteModal
  \/ /\ screen = "resultScreen"
     /\ substituteModal.open
     /\ \E newItemKey \in Keys :
          HandleSubstitution(substituteModal.item.key, newItemKey)
  \/ /\ screen = "resultScreen"
     /\ calls = <<>>
     /\ \E oldItem \in ItemSet, newItem \in ItemSet :
          ReplaceItem(oldItem, newItem)
  \/ ReplaceBack

Spec == Init /\ [][Next]_vars

(***************************************************************************)
(* Two requests for one wearer                                             *)
(***************************************************************************)
\* getRecommendations called a second time, for the same wearer and
\* calibration at another temperature.  The list of the first request is
\* kept next to the new one.
GetRecommendationsAgain(temp, sortImpl) ==
  /\ screen \in {"resultScreen", "noResult"}
  /\ prevRecommendations = NoRecommendations
  /\ \E trace \in {recommendationTrace(temp, stateAgeCategory, stateGender,
                                       stateWarmth, sortImpl)} :
       /\ validCombinations' = trace.ranked
       /\ selected' = trace.diverse
       /\ recommendations' = trace.result
       /\ screen' = IF trace.result = <<>> THEN "noResult" ELSE "resultScreen"
  /\ prevRecommendations' = [result |-> recommendations]
  /\ prevTemperature' = stateTemperature
  /\ prevRequirements' = stateRequirements
  /\ stateTemperature' = temp
  /\ stateRequirements' =
       computeRequirements(temp, stateAgeCategory, stateGender, stateWarmth)
  /\ UNCHANGED <<combinationsCall, validationCall,
                 stateAgeCategory, stateGender, stateWarmth,
                 stateCurrentRecommendation, substituteModal, calls,
                 zoneCall>>

\* The second request is made at a milder temperature than the first.
MilderTemperatures == {Deg(-1)}

\* First requests: every wearer at the coldest temperature, and the adult
\* wearers at -10 degrees.
NextPair ==
  \/ /\ screen = "ageScreen"
     /\ \E ageCategory \in AgeCategories, gender \in Genders,
           warmthAdjustment \in RecCalibrations :
          SetProfile(Deg(TempMin), ageCategory, gender, warmthAdjustment)
  \/ /\ screen = "ageScreen"
     /\ \E gender \in Genders, warmthAdjustment \in RecCalibrations :
          SetProfile(Deg(-10), "adult", gender, warmthAdjustment)
  \/ \E sortImpl \in SortImpls : GetRecommendations(sortImpl)
  \/ /\ screen \in {"resultScreen", "noResult"}
     /\ prevRecommendations = NoRecommendations
     /\ stateTemperature = Deg(TempMin)
     /\ \E temp \in MilderTemperatures, sortImpl \in SortImpls :
          GetRecommendationsAgain(temp, sortImpl)

SpecPair == Init /\ [][NextPair]_vars

(***************************************************************************)
(* Zone searches                                                           *)
(***************************************************************************)
\* What one call of generateZoneCombinations records before it sorts and
\* truncates (nothing when it returns early), and what it returns.
zoneCallOf(zone, items, requirement, temp, ageCategory) ==
  [zone |-> zone, items |-> items, requirement |-> requirement,
   recorded |-> IF requirement.max = 0 THEN <<>>
                ELSE zoneCandidates(items, requirement, temp, ageCategory),
   returned |-> generateZoneCombinations(items, requirement, temp,
                                         ageCategory)]

\* One of the five generateZoneCombinations calls findCombinations makes for
\* the profile entered.
GenerateZoneCombinations(zone) ==
  /\ screen = "tempScreen"
  /\ screen' = "zoneCombos"
  /\ \E requirements \in {computeRequirements(stateTemperature,
                            stateAgeCategory, stateGender, stateWarmth)} :
       /\ stateRequirements' = requirements
       /\ zoneCall' = zoneCallOf(zone, ofZone(getAllItems(stateTemperature),
                                              zone),
                                 requirements[zone], stateTemperature,
                                 stateAgeCategory)
  /\ UNCHANGED <<combinationsCall, validationCall,
                 stateTemperature, stateAgeCategory, stateGender, stateWarmth,
                 prevTemperature, prevRequirements, validCombinations,
                 selected, recommendations, stateCurrentRecommendation,
                 substituteModal, calls, prevRecommendations>>

\* Temperatures of the zone searches explored.
ZoneTemperatures == {Deg(d) : d \in {-15, -3, 4, 8, 12, 20}}

NextZone ==
  \/ /\ screen = "ageScreen"
     /\ \E temp \in ZoneTemperatures, ageCategory \in AgeCategories,
           gender \in RecGenders, warmthAdjustment \in RecCalibrations :
          SetProfile(temp, ageCategory, gender, warmthAdjustment)
  \/ /\ screen = "tempScreen"
     /\ \E zone \in ZoneSet : GenerateZoneCombinations(zone)

SpecZone == Init /\ [][NextZone]_vars

(***************************************************************************)
(* Outfit composition calls                                                *)
(***************************************************************************)
\* findCombinations called for the requirement set of the profile entered,
\* with a limit of the caller's choice.
FindCombinations(maxCombinations) ==
  /\ screen = "tempScreen"
  /\ screen' = "combinations"
  /\ \E requirements \in {computeRequirements(stateTemperature,
                            stateAgeCategory, stateGender, stateWarmth)} :
       /\ stateRequirements' = requirements
       /\ combinationsCall' =
            [maxCombinations |-> maxCombinations,
             combinations |-> findCombinations(requirements, maxCombinations,
                                               stateTemperature,
                                               stateAgeCategory)]
  /\ UNCHANGED <<stateTemperature, stateAgeCategory, stateGender, stateWarmth,
                 prevTemperature, prevRequirements, validCombinations,
                 selected, recommendations, stateCurrentRecommendation,
                 substituteModal, calls, prevRecommendations, zoneCall,
                 validationCall>>

\* The limits findCombinations is called with; getRecommendations uses 50.
Limits == {0, 1, 10, MaxCombinations}

ComposeTemperatures == {Deg(d) : d \in {-5, 5, 12, 20}}

ComposeAges == {"adult", "child"}

NextCompose ==
  \/ /\ screen = "ageScreen"
     /\ \E temp \in ComposeTemperatures, ageCategory \in ComposeAges,
           gender \in RecGenders, warmthAdjustment \in RecCalibrations :
          SetProfile(temp, ageCategory, gender, warmthAdjustment)
  \/ /\ screen = "tempScreen"
     /\ \E maxCombinations \in Limits : FindCombinations(maxCombinations)

SpecCompose == Init /\ [][NextCompose]_vars

(***************************************************************************)
(* Validator calls                                                         *)
(***************************************************************************)
\* isValidCombination(combination, true, temp, ageCategory) called for an
\* outfit with the given core garments, at the temperature and for the age
\* category entered.
IsValidCombination(core) ==
  /\ screen = "tempScreen"
  /\ screen' = "validated"
  /\ validationCall' =
       [core |-> core,
        reason |-> rejectionReason([core |-> core], stateTemperature,
                                   stateAgeCategory),
        isValid |-> isValidCombination([core |-> core], stateTemperature,
                                       stateAgeCategory)]
  /\ UNCHANGED <<stateTemperature, stateAgeCategory, stateGender, stateWarmth,
                 stateRequirements, prevTemperature, prevRequirements,
                 validCombinations, selected, recommendations,
                 stateCurrentRecommendation, substituteModal, calls,
                 prevRecommendations, zoneCall, combinationsCall>>

\* The catalog has no outer garment between 0.37 and 0.49 CLO; the validator
\* takes any garment, and this one is in that range.
RegularCoat == Item("regular-coat", 40, "outer", "core")

\* The core lists the validator is called with: base layers, up to three of
\* five mid layers, and the outer layers.
BaseChoices ==
  {<<>>, <<ItemOf("vest")>>, <<ItemOf("t-shirt")>>,
   <<ItemOf("thermal-top")>>, <<ItemOf("t-shirt"), ItemOf("thermal-top")>>,
   <<ItemOf("vest"), ItemOf("thermal-top")>>,
   <<ItemOf("vest"), ItemOf("t-shirt"), ItemOf("thermal-top")>>}

MidKeys == <<"vest-top", "cardigan", "jumper", "fleece", "thick-jumper">>

MidChoices ==
  {SelectSeq([i \in DOMAIN MidKeys |-> ItemOf(MidKeys[i])],
             LAMBDA item : item.key \in S) :
     S \in {T \in SUBSET {MidKeys[i] : i \in DOMAIN MidKeys} :
              Cardinality(T) <= 3}}

OuterChoices ==
  {<<>>, <<ItemOf("light-jacket")>>, <<RegularCoat>>, <<ItemOf("coat")>>,
   <<ItemOf("winter-coat")>>, <<ItemOf("light-jacket"), ItemOf("coat")>>}

ValidatorTemperatures == {Deg(d) : d \in {-15, -10, -4, 0, 1, 2, 5, 9, 15, 20}}

ValidatorAges == {"adult", "infant"}

NextValid ==
  \/ /\ screen = "ageScreen"
     /\ \E temp \in ValidatorTemperatures, ageCategory \in ValidatorAges :
          SetProfile(temp, ageCategory, "female", 0)
  \/ /\ screen = "tempScreen"
     /\ \E base \in BaseChoices, mid \in MidChoices, outer \in OuterChoices :
          IsValidCombination(base \o mid \o outer)

SpecValid == Init /\ [][NextValid]_vars

(***************************************************************************)
(* Swaps of the outer garment                                              *)
(***************************************************************************)
SwapTemperatures == {Deg(-2), Deg(4), Deg(8)}

SwapAges == {"adult", "child"}

Outers == {item \in ItemSet : item.category = "outer"}

\* An outfit recommended to a male wearer is shown and its outer garment or
\* another one is replaced by an outer garment.
NextSwap ==
  \/ /\ screen = "ageScreen"
     /\ \E temp \in SwapTemperatures, ageCategory \in SwapAges :
          SetProfile(temp, ageCategory, "male", 0)
  \/ \E sortImpl \in SortImpls : GetRecommendation(sortImpl)
  \/ /\ screen = "resultScreen"
     /\ calls = <<>>
     /\ \E oldItem \in Outers, newItem \in Outers :
          ReplaceItem(oldItem, newItem)

SpecSwap == Init /\ [][NextSwap]_vars

(***************************************************************************)
(* Properties of the requirement model (SpecReq)                           *)
(***************************************************************************)
isReference(temp) == \E i \in DOMAIN bands : temp = Deg(bands[i])

\* Strictly between the lowest and the highest reference temperature.
strictlyInside(temp) == temp > Deg(-5) /\ temp < Deg(15)

\* The same wearer was asked about two temperatures, one after the other.
twoQueries == screen = "second"

coreTargets(requirements) ==
  <<requirements.core.min, requirements.core.max, requirements.core.optimal>>

\* C5: for a fixed age category, gender and calibration, two temperatures
\* t1 < t2 strictly between -5 and 15, neither of them a reference
\* temperature, have different core optimal targets: the target falls
\* strictly as the temperature rises, also across a band boundary.
C5_StrictlyMonotoneOptimal ==
  (/\ twoQueries
   /\ prevTemperature < stateTemperature
   /\ strictlyInside(prevTemperature) /\ strictlyInside(stateTemperature)
   /\ ~isReference(prevTemperature) /\ ~isReference(stateTemperature))
    => prevRequirements.core.optimal > stateRequirements.core.optimal

\* Two non-reference temperatures on either side of the references 2 and 5,
\* for a calibrated wearer.
C5_Witness ==
  /\ twoQueries
  /\ stateWarmth = -2
  /\ prevTemperature > Deg(0) /\ prevTemperature < Deg(2)
  /\ stateTemperature > Deg(5) /\ stateTemperature < Deg(7)
  /\ prevRequirements.core.optimal > stateRequirements.core.optimal

clampedTogether(t1, t2) ==
  \/ (t1 <= Deg(-5) /\ t2 <= Deg(-5))
  \/ (t1 >= Deg(15) /\ t2 >= Deg(15))

unadjusted ==
  stateAgeCategory = "adult" /\ stateGender # "female" /\ stateWarmth = 0

\* The zones of the requirement set in which the mapping shows unchanged.
mappedZones == IF unadjusted THEN ZoneSet ELSE ZoneSet \ {"core"}

targetFields == {"min", "max", "optimal"}

\* field = lower + (t - lowerTemp) / (upperTemp - lowerTemp) * (upper - lower),
\* multiplied out, and between the two stored values.
interpolatedBetween(value, temp, lo, up, lower, upper) ==
  /\ (value - lower) * (Deg(up) - Deg(lo)) = (temp - Deg(lo)) * (upper - lower)
  /\ value >= Min2(lower, upper)
  /\ value <= Max2(lower, upper)

answered == screen \in {"noResult", "resultScreen"}

\* C1: for every temperature, age category, gender and calibration offset,
\* every outfit in the list getRecommendations returns is accepted by
\* isValidCombination at the same temperature and age category.
C1_RecommendedOutfitsValid ==
  answered =>
    \A k \in DOMAIN recommendations :
      isValidCombination(recommendations[k], stateTemperature,
                         stateAgeCategory)

\* Three outfits were returned for a calibrated request in the cold, each
\* with a coat, and the validator accepts them.
C1_Witness ==
  /\ screen = "resultScreen"
  /\ stateTemperature <= Deg(0)
  /\ stateWarmth # 0
  /\ Len(recommendations) = 3
  /\ \A k \in DOMAIN recommendations :
       /\ ofCategory(recommendations[k].core, "outer") # <<>>
       /\ isValidCombination(recommendations[k], stateTemperature,
                             stateAgeCategory)

\* C10: given a list of n valid outfits, selectDiverseCombinations returns
\* exactly min(3, n) outfits, the first of them is the first outfit of the
\* list, and no outfit of the list is returned twice.
C10_SelectsDistinctOutfits ==
  answered =>
    /\ Len(selected) = Min2(3, Len(validCombinations))
    /\ Len(recommendations) = Len(selected)
    /\ \A k \in DOMAIN selected :
         /\ selected[k] \in DOMAIN validCombinations
         /\ recommendations[k] = validCombinations[selected[k]]
    /\ validCombinations # <<>> => selected[1] = 1
    /\ \A j, k \in DOMAIN selected : j # k => selected[j] # selected[k]

\* More than three valid outfits, of which three different ones are
\* returned and the third is not simply the next of the list.
C10_Witness ==
  /\ screen = "resultScreen"
  /\ Len(validCombinations) > 3
  /\ Len(selected) = 3
  /\ selected[1] = 1
  /\ selected[2] # selected[3]
  /\ selected[3] > 3

(***************************************************************************)
(* Properties of substitution sessions (Spec)                              *)
(***************************************************************************)
\* totalCLO and coreCLO of an outfit are the sums over its garments.
totalsMatch(outfit) ==
  /\ outfit.totalCLO = sumCLO(allItemsOf(outfit))
  /\ outfit.coreCLO = sumCLO(outfit.core)

\* C2: for every outfit getRecommendations returns and every outfit reached
\* from it by a sequence of replaceItem calls, totalCLO is the sum of the
\* insulation of all garments in the five zone lists and coreCLO the sum
\* over the core list, also when the outer swap or the rebalancing added or
\* removed garments.
C2_TotalsAreSums ==
  /\ stateCurrentRecommendation # NoOutfit
       => totalsMatch(stateCurrentRecommendation)
  /\ \A i \in DOMAIN calls : totalsMatch(calls[i].updated)

\* The second of two replaceItem calls rebalanced the outfit, and the
\* outfit shown is its result with other totals than before.
C2_Witness ==
  /\ Len(calls) = 2
  /\ calls[2].rebalanced
  /\ stateCurrentRecommendation = calls[2].updated
  /\ calls[2].updated.totalCLO # calls[2].given.totalCLO
  /\ totalsMatch(stateCurrentRecommendation)

\* C3: replaceItem never changes the outfit it is given: after the call its
\* five zone lists, totalCLO, coreCLO and requirements are what they were
\* before, for every pair of garments and whichever adjustment or
\* rebalancing branch was taken.
C3_GivenOutfitUntouched ==
  \A i \in DOMAIN calls : calls[i].original = calls[i].given

\* A call that removed the old garment and then rebalanced, returning
\* another outfit than the one given.
C3_Witness ==
  \E i \in DOMAIN calls :
    /\ calls[i].oldFound
    /\ calls[i].rebalanced
    /\ calls[i].updated # calls[i].given
    /\ calls[i].original = calls[i].given

zoneLists(outfit) ==
  <<outfit.core, outfit.head, outfit.hands, outfit.neck, outfit.feet>>

\* C4: when replaceItem is called with an old garment whose key is not in
\* the outfit's zone list, the outfit returned has the garments of the
\* outfit given: the new garment is not inserted.
C4_AbsentOldGarmentIsNoOp ==
  \A i \in DOMAIN calls :
    ~calls[i].oldFound
      => zoneLists(calls[i].updated) = zoneLists(calls[i].given)

\* The equivalence groups of accessories.
equivalenceGroups ==
  { {"scarf", "thick-scarf", "balaclava", "neck-warmer"},
    {"hat", "warm-hat"},
    {"gloves", "insulated-gloves", "mittens"},
    {"thermal-socks", "thick-socks", "double-socks"} }

sameGroup(key1, key2) ==
  \E group \in equivalenceGroups : key1 \in group /\ key2 \in group

garmentCount(outfit, key) ==
  Cardinality({i \in DOMAIN allItemsOf(outfit) :
                 allItemsOf(outfit)[i].key = key})

sameGarments(outfit1, outfit2) ==
  \A key \in Keys \cup {it.key : it \in UnlistedAccessories} :
    garmentCount(outfit1, key) = garmentCount(outfit2, key)

\* Neither the outer swap nor the rebalancing added or removed a garment.
plainCall(call) == ~call.adjusted /\ ~call.rebalanced

\* C9: replacing garment A of an outfit by garment B and then, in the
\* outfit returned, B by A gives an outfit with the garments of the
\* original, each as often as before, provided that in neither call the
\* outer swap or the rebalancing added or removed a garment.
C9_RoundTripRestoresGarments ==
  \A i \in 1..(Len(calls) - 1) :
    (/\ calls[i].oldFound
     /\ calls[i + 1].given = calls[i].updated
     /\ calls[i + 1].oldItem = calls[i].newItem
     /\ calls[i + 1].newItem = calls[i].oldItem
     /\ plainCall(calls[i]) /\ plainCall(calls[i + 1]))
      => sameGarments(calls[i + 1].updated, calls[i].given)

\* A garment was replaced by another of another zone and put back, without
\* adjustments.
C9_Witness ==
  /\ screen = "roundTrip"
  /\ Len(calls) = 2
  /\ calls[1].oldFound
  /\ calls[1].oldItem.zone # calls[1].newItem.zone
  /\ plainCall(calls[1]) /\ plainCall(calls[2])
  /\ ~sameGarments(calls[1].updated, calls[1].given)
  /\ sameGarments(calls[2].updated, calls[1].given)

(***************************************************************************)
(* Properties of the recommendation pipeline (SpecRec, SpecPair)           *)
(***************************************************************************)
\* The candidates generateZoneCombinations returns for one zone of the
\* request just answered.
generatedFor(zone) ==
  generateZoneCombinations(ofZone(getAllItems(stateTemperature), zone),
                           stateRequirements[zone], stateTemperature,
                           stateAgeCategory)

elementsOf(seq) == {seq[i] : i \in DOMAIN seq}

\* Some combination of one generated candidate per zone passes the
\* wearability validator at the temperature and age category of the request.
someCandidatesWearable ==
  \E core \in elementsOf(generatedFor("core")),
     head \in elementsOf(generatedFor("head")),
     hands \in elementsOf(generatedFor("hands")),
     neck \in elementsOf(generatedFor("neck")),
     feet \in elementsOf(generatedFor("feet")) :
       isValidCombination(outfitOf(core, head, hands, neck, feet),
                          stateTemperature, stateAgeCategory)

\* C11: getRecommendations returns the empty list only for an unsatisfiable
\* request: whenever some combination of one generated candidate per zone
\* (core, head, hands, neck, feet) passes the wearability validator for the
\* temperature and age category of the request, the list returned is not
\* empty.
C11_EmptyOnlyWhenUnsatisfiable ==
  (answered /\ someCandidatesWearable) => recommendations # <<>>

\* The request getRecommendations(10, 'adult', 'male', 0) was answered.
mildRequest ==
  /\ answered
  /\ prevRecommendations = NoRecommendations
  /\ stateTemperature = Deg(10)
  /\ stateAgeCategory = "adult"
  /\ stateGender = "male"
  /\ stateWarmth = 0

\* C12: getRecommendations at 10 degrees for an adult male with calibration
\* 0 returns a non-empty list, and the core of its first outfit has exactly
\* one base-category garment and no outer-category garment.
C12_MildTopOutfitNotOverLayered ==
  mildRequest =>
    /\ recommendations # <<>>
    /\ Len(ofCategory(recommendations[1].core, "base")) = 1
    /\ Len(ofCategory(recommendations[1].core, "outer")) = 0

\* The mild request was answered with three outfits, the first a single
\* base layer under a mid layer.
C12_Witness ==
  /\ mildRequest
  /\ Len(recommendations) = 3
  /\ Len(recommendations[1].core) = 2
  /\ Len(ofCategory(recommendations[1].core, "mid")) = 1

\* The request getRecommendations(-10, 'adult', 'unspecified') was answered;
\* the calibration offset has its default, 0.
coldRequest ==
  /\ answered
  /\ prevRecommendations = NoRecommendations
  /\ stateTemperature = Deg(-10)
  /\ stateAgeCategory = "adult"
  /\ stateGender = "unspecified"
  /\ stateWarmth = 0

\* C13: getRecommendations at -10 degrees for an adult of unspecified gender
\* returns a non-empty list whose first outfit contains exactly one outer
\* garment and at least one garment in each of the head, hands and neck
\* zones.
C13_ColdTopOutfitCovered ==
  coldRequest =>
    /\ recommendations # <<>>
    /\ Len(ofCategory(allItemsOf(recommendations[1]), "outer")) = 1
    /\ recommendations[1].head # <<>>
    /\ recommendations[1].hands # <<>>
    /\ recommendations[1].neck # <<>>

\* The cold request was answered with three outfits, the first with a coat
\* in its core and covered feet as well.
C13_Witness ==
  /\ coldRequest
  /\ Len(recommendations) = 3
  /\ Len(ofCategory(recommendations[1].core, "outer")) = 1
  /\ recommendations[1].feet # <<>>

\* The same wearer, with the same calibration, asked at -15 degrees and then
\* at -1 degree.
coldThenMilder ==
  /\ answered
  /\ prevRecommendations # NoRecommendations
  /\ prevTemperature = Deg(-15)
  /\ stateTemperature = Deg(-1)

zonesMatch(outfit) ==
  \A zone \in ZoneSet :
    \A i \in DOMAIN outfit[zone] : outfit[zone][i].zone = zone

\* C15: in every outfit getRecommendations returns and every outfit reached
\* from it by replaceItem calls (cross-zone accessory swaps, the garments
\* the outer swap adds and the garments the rebalancing adds included),
\* each garment of the core list has zone core, each garment of the head
\* list zone head, and likewise for hands, neck and feet.
C15_ZoneMembership ==
  /\ stateCurrentRecommendation # NoOutfit
       => zonesMatch(stateCurrentRecommendation)
  /\ \A i \in DOMAIN calls : zonesMatch(calls[i].updated)

\* An accessory of the outfit was replaced by an accessory of another zone,
\* and the new one is in the list of its own zone.
C15_Witness ==
  \E i \in DOMAIN calls :
    /\ calls[i].oldFound
    /\ calls[i].oldItem.zone # "core"
    /\ calls[i].newItem.zone # "core"
    /\ calls[i].oldItem.zone # calls[i].newItem.zone
    /\ hasKey(calls[i].updated[calls[i].newItem.zone], calls[i].newItem.key)
    /\ zonesMatch(calls[i].updated)

\* The call replaced a garment of the outfit by one of the substitutes
\* findSubstitutes offers for it.
fromSubstitutes(call) ==
  /\ \E i \in DOMAIN allItemsOf(call.given) :
       allItemsOf(call.given)[i] = call.oldItem
  /\ hasKey(findSubstitutes(call.given, call.oldItem, DefaultTemp),
            call.newItem.key)

\* The first n calls of the session are such substitutions.
substitutionChain(n) == \A j \in 1..n : fromSubstitutes(calls[j])

\* At most 1 outer, 2 mid and maxBaseLayers base garments in the core.
layersWithinLimits(outfit) ==
  /\ countCategory(outfit.core, "outer") <= 1
  /\ countCategory(outfit.core, "mid") <= 2
  /\ countCategory(outfit.core, "base")
       <= maxBaseLayersFor(stateTemperature, stateAgeCategory)

\* C16: every outfit getRecommendations returns, and every outfit reached
\* from it by substitutions whose new garment is taken from findSubstitutes
\* for a garment of the outfit, has in its core at most 1 outer, at most 2
\* mid and at most maxBaseLayers base garments (3 for an elderly,
\* very-elderly, infant or child wearer at 5 degrees or colder, otherwise 2).
C16_LayerCounts ==
  /\ (stateCurrentRecommendation # NoOutfit /\ calls = <<>>)
       => layersWithinLimits(stateCurrentRecommendation)
  /\ \A i \in DOMAIN calls :
       substitutionChain(i) => layersWithinLimits(calls[i].updated)

\* Two substitutions from the modal, the second of a core garment of an
\* outfit with three base layers.
C16_Witness ==
  /\ Len(calls) = 2
  /\ substitutionChain(2)
  /\ calls[2].oldItem.zone = "core"
  /\ countCategory(calls[2].updated.core, "base") = 3
  /\ layersWithinLimits(calls[2].updated)

\* Two or more base garments include the t-shirt.
foundationKept(outfit) ==
  countCategory(outfit.core, "base") >= 2
    => hasKey(ofCategory(outfit.core, "base"), "t-shirt")

\* C17: every outfit getRecommendations returns, and every outfit reached
\* from it by substitutions whose new garment is taken from findSubstitutes
\* for a garment of the outfit, that has two or more base garments in its
\* core has the t-shirt among them.
C17_FoundationKept ==
  /\ (stateCurrentRecommendation # NoOutfit /\ calls = <<>>)
       => foundationKept(stateCurrentRecommendation)
  /\ \A i \in DOMAIN calls :
       substitutionChain(i) => foundationKept(calls[i].updated)

(***************************************************************************)
(* The frame of the adjustments (SpecReq)                                  *)
(***************************************************************************)
\* A requirement set was computed for the profile in the state.
queried == screen \in {"first", "second"}

\* The age offset, the gender offset and a quarter of a CLO per calibration
\* step.
coreOffset ==
  AgeAdjustment(stateAgeCategory) + GenderAdjustment(stateGender)
    + stateWarmth * H(25)

\* The core requirement is the band's, shifted by the offset, the minimum
\* floored at 0 when the calibration is not 0.
coreShifted(core, bandCore, offset) ==
  /\ core.max = bandCore.max + offset
  /\ core.optimal = bandCore.optimal + offset
  /\ core.min = IF stateWarmth # 0 THEN Max2(0, bandCore.min + offset)
                ELSE bandCore.min + offset

\* Everything but the core requirement (and the exposure limit, which the
\* claim does not speak of) is the band's.
restFrom(requirements, band) ==
  /\ requirements.head = band.head
  /\ requirements.hands = band.hands
  /\ requirements.neck = band.neck
  /\ requirements.feet = band.feet
  /\ requirements.riskLevel = band.riskLevel
  /\ requirements.alert = band.alert
  /\ requirements.warning = band.warning

\* C18: for every temperature, age category, gender and calibration c in
\* -2..2, the core min, max and optimal of the requirement set are the
\* temperature band's values plus the age offset plus the gender offset plus
\* 0.25 * c (the core min floored at 0 when c is not 0; an unknown age
\* category or gender contributes 0), and the head, hands, neck and feet
\* requirements, the risk level, the alert tier and the advisory text are
\* the band's.
C18_AdjustmentsTouchOnlyCore ==
  queried =>
    /\ coreShifted(stateRequirements.core,
                   getTemperatureBand(stateTemperature).core, coreOffset)
    /\ restFrom(stateRequirements, getTemperatureBand(stateTemperature))

\* A calibrated request of an elderly woman at an interpolated temperature:
\* the core target is shifted, the head requirement is not.
C18_Witness ==
  /\ queried
  /\ stateAgeCategory = "elderly"
  /\ stateGender = "female"
  /\ stateWarmth = 2
  /\ stateTemperature = Deg(3)
  /\ stateRequirements.core.optimal
       = getTemperatureBand(Deg(3)).core.optimal + H(80)
  /\ stateRequirements.head = getTemperatureBand(Deg(3)).head
  /\ stateRequirements.head.max > 0

(***************************************************************************)
(* Properties of the zone search (SpecZone)                                *)
(***************************************************************************)
\* generateZoneCombinations was called for a zone of the profile entered.
zoneSearched == screen = "zoneCombos"

\* min <= s <= max * 1.3
inRange(s, requirement) ==
  s >= requirement.min /\ s * 10 <= requirement.max * 13

distanceOf(candidate, requirement) ==
  Abs(requirement.optimal - sumCLO(candidate.items))

\* C19: for every zone requirement with max > 0, generateZoneCombinations
\* returns at most 30 candidates, each with a summed insulation s such that
\* min <= s <= max * 1.3, in ascending order of |optimal - s|; when max is
\* exactly 0 it returns exactly one candidate, the empty garment list with
\* insulation 0.
C19_ZoneCandidatesBoundedAndOrdered ==
  zoneSearched =>
    /\ zoneCall.requirement.max > 0 =>
         /\ Len(zoneCall.returned) <= 30
         /\ \A i \in DOMAIN zoneCall.returned :
              /\ zoneCall.returned[i].clo = sumCLO(zoneCall.returned[i].items)
              /\ inRange(sumCLO(zoneCall.returned[i].items),
                         zoneCall.requirement)
         /\ \A i \in DOMAIN zoneCall.returned :
              \A j \in DOMAIN zoneCall.returned :
                i < j => distanceOf(zoneCall.returned[i], zoneCall.requirement)
                           <= distanceOf(zoneCall.returned[j],
                                         zoneCall.requirement)
    /\ zoneCall.requirement.max = 0 =>
         zoneCall.returned = << [items |-> <<>>, clo |-> 0] >>

\* A core search recorded more than 30 candidates and returned 30 of them,
\* the last one farther from the optimal than the first.
C19_Witness ==
  /\ zoneSearched
  /\ zoneCall.zone = "core"
  /\ zoneCall.requirement.max > 0
  /\ Len(zoneCall.recorded) > 30
  /\ Len(zoneCall.returned) = 30
  /\ distanceOf(zoneCall.returned[1], zoneCall.requirement)
       < distanceOf(zoneCall.returned[30], zoneCall.requirement)

\* The sets of at most limit garments of a list, each with its summed
\* insulation; with the foundation rule, two or more include the t-shirt.
choices(items, limit, foundation) ==
  {[keys |-> S,
    clo |-> sumCLO(SelectSeq(items, LAMBDA item : item.key \in S))] :
     S \in {T \in SUBSET {items[i].key : i \in DOMAIN items} :
              /\ Cardinality(T) <= limit
              /\ (foundation /\ Cardinality(T) >= 2) => "t-shirt" \in T}}

\* The subsets of the core garments within the layer limits and the
\* foundation rule.
coreSubsets(items, maxBaseLayers) ==
  {[keys |-> b.keys \cup m.keys \cup o.keys, clo |-> b.clo + m.clo + o.clo] :
     b \in choices(ofCategory(items, "base"), maxBaseLayers, TRUE),
     m \in choices(ofCategory(items, "mid"), 2, FALSE),
     o \in choices(ofCategory(items, "outer"), 1, FALSE)}

\* The subsets the search of the call has to record.
admissible(call) ==
  {x.keys :
     x \in {y \in (IF call.zone = "core"
                     THEN coreSubsets(call.items,
                                      maxBaseLayersFor(stateTemperature,
                                                       stateAgeCategory))
                     ELSE choices(call.items, Len(call.items), FALSE)) :
              inRange(y.clo, call.requirement)}}

keySet(items) == {items[i].key : i \in DOMAIN items}

\* The garment sets of the candidates a call recorded.
recordedSets(call) ==
  {keySet(call.recorded[i].items) : i \in DOMAIN call.recorded}

\* C20: before the truncation to 30, the candidates recorded for the core
\* zone are exactly the subsets of the zone's garments, each recorded once,
\* with at most maxBaseLayers base, at most 2 mid and at most 1 outer
\* garment, with the t-shirt whenever they have 2 or more base garments,
\* and a summed insulation in [min, max * 1.3]: the pruning (layer limits,
\* missing foundation, insulation above max * 1.5) discards none of them.
\* For the accessory zones the candidates recorded are exactly the subsets
\* whose insulation is in the window.
C20_ZoneSearchExhaustive ==
  (zoneSearched /\ zoneCall.requirement.max # 0) =>
    /\ \A i \in DOMAIN zoneCall.recorded :
         Cardinality(keySet(zoneCall.recorded[i].items))
           = Len(zoneCall.recorded[i].items)
    /\ Cardinality(recordedSets(zoneCall)) = Len(zoneCall.recorded)
    /\ recordedSets(zoneCall) = admissible(zoneCall)

\* A core search with room for three base layers recorded more than 30
\* subsets, one of them with three base layers and two mid layers.
C20_Witness ==
  /\ zoneSearched
  /\ zoneCall.zone = "core"
  /\ Len(zoneCall.recorded) > 30
  /\ \E i \in DOMAIN zoneCall.recorded :
       /\ countCategory(zoneCall.recorded[i].items, "base") = 3
       /\ countCategory(zoneCall.recorded[i].items, "mid") = 2
       /\ hasKey(zoneCall.recorded[i].items, "t-shirt")

(***************************************************************************)
(* Properties of outfit composition (SpecCompose)                          *)
(***************************************************************************)
composed == combinationsCall # NoCombinationsCall

\* The candidates of a zone the loops walk: the generated ones, capped.
candidatesOf(zone, cap) == headOf(generatedFor(zone), cap)

\* The k-th tuple (k from 0) of the iteration with the core outermost and
\* the feet innermost, over c, h, a, n, f candidates.
tupleAt(k, h, a, n, f) ==
  [core |-> (k \div (h * a * n * f)) + 1, head |-> ((k \div (a * n * f)) % h) + 1,
   hands |-> ((k \div (n * f)) % a) + 1, neck |-> ((k \div f) % n) + 1,
   feet |-> (k % f) + 1]

firstOfIteration(combinations, limit, core, head, hands, neck, feet) ==
  /\ Len(combinations) =
       Min2(limit, Len(core) * Len(head) * Len(hands) * Len(neck) * Len(feet))
  /\ \A k \in DOMAIN combinations :
       \E at \in {tupleAt(k - 1, Len(head), Len(hands), Len(neck), Len(feet))} :
         /\ combinations[k].core = core[at.core].items
         /\ combinations[k].head = head[at.head].items
         /\ combinations[k].hands = hands[at.hands].items
         /\ combinations[k].neck = neck[at.neck].items
         /\ combinations[k].feet = feet[at.feet].items

coreAsked ==
  /\ substituteModal.asked
  /\ screen = "substitutes" \/ substituteModal.open
  /\ stateCurrentRecommendation # NoOutfit
  /\ substituteModal.item.zone = "core"
  /\ hasKey(stateCurrentRecommendation.core, substituteModal.item.key)

\* The core insulation of the outfit shown with garment g swapped for
\* the candidate.
swappedCLO(g, candidate) ==
  sumCLO(stateCurrentRecommendation.core) - g.clo + candidate.clo

qualifies(g, candidate) ==
  /\ candidate.zone = "core"
  /\ candidate.category = g.category
  /\ candidate.key # g.key
  /\ stateCurrentRecommendation.requirements.core.min * 9 <= swappedCLO(g, candidate) * 10
  /\ swappedCLO(g, candidate) * 10 <= stateCurrentRecommendation.requirements.core.max * 13

distanceAfter(g, candidate) ==
  Abs(swappedCLO(g, candidate) - stateCurrentRecommendation.requirements.core.optimal)

substitutesFor(g, substitutes) ==
  /\ Len(substitutes) <= 5
  /\ \A i \in DOMAIN substitutes : qualifies(g, substitutes[i])
  /\ \A i \in 1..(Len(substitutes) - 1) :
       distanceAfter(g, substitutes[i]) <= distanceAfter(g, substitutes[i + 1])
  /\ (\A candidate \in ItemSet : ~qualifies(g, candidate)) => substitutes = <<>>

\* C22: for a core garment g of an outfit, findSubstitutes returns at most 5
\* garments, each a core garment of g's category with another key that keeps
\* the core insulation within [min * 0.9, max * 1.3], ordered by ascending
\* distance of the resulting core insulation from the optimal; the list is
\* empty when no garment qualifies.
C22_CoreSubstitutes ==
  coreAsked => substitutesFor(substituteModal.item, substituteModal.substitutes)

\* Five substitutes offered, at different distances from the optimal.
C22_Witness ==
  /\ coreAsked
  /\ Len(substituteModal.substitutes) = 5
  /\ distanceAfter(substituteModal.item, substituteModal.substitutes[1])
       < distanceAfter(substituteModal.item, substituteModal.substitutes[5])

\* The accessory zones in the order the outer upgrade lists them.
upgradeOrder == <<"head", "neck", "hands", "feet">>

positionOf(zone) == CHOOSE p \in DOMAIN upgradeOrder : upgradeOrder[p] = zone

\* How far the accessories of a zone are above the minimum of the zone.
overMinimum(lists, requirements, zone) ==
  sumCLO(lists[zone]) - requirements[zone].min

\* Zone y gives up its accessories before zone z.
givesUpBefore(lists, requirements, y, z) ==
  \/ overMinimum(lists, requirements, y) > overMinimum(lists, requirements, z)
  \/ /\ overMinimum(lists, requirements, y) = overMinimum(lists, requirements, z)
     /\ positionOf(y) < positionOf(z)

zonesBefore(lists, requirements, z) ==
  {y \in {"head", "neck", "hands", "feet"} : givesUpBefore(lists, requirements, y, z)}

\* The accessories of the zones that give up theirs before zone z.
accessoriesBefore(lists, requirements, z) ==
  UNION {{<<y, i>> : i \in DOMAIN lists[y]} : y \in zonesBefore(lists, requirements, z)}

RECURSIVE insulationOf(_, _)
\* The summed insulation of a set of accessories, each given as <<zone, index>>.
insulationOf(accessories, lists) ==
  IF accessories = {} THEN 0
  ELSE LET a == CHOOSE x \in accessories : TRUE
       IN  lists[a[1]][a[2]].clo + insulationOf(accessories \ {a}, lists)

\* Accessory j of zone z comes off: the core insulation, lowered by 30% of
\* every accessory that comes off before it, is still above coreMax * 1.05.
comesOff(lists, requirements, z, j) ==
  \E earlier \in {accessoriesBefore(lists, requirements, z) \cup {<<z, i>> : i \in 1..(j - 1)}} :
    (10 * sumCLO(lists.core) - 3 * insulationOf(earlier, lists)) * 100
      > requirements.core.max * 105 * 10

\* The accessories of zone z that stay on.
stayingOn(lists, requirements, z) ==
  SubSeq(lists[z],
         Cardinality({j \in DOMAIN lists[z] : comesOff(lists, requirements, z, j)}) + 1,
         Len(lists[z]))

upgradeTriggered(call) ==
  /\ bothOuter(call.oldItem, call.newItem)
  /\ \/ call.newItem.clo - call.oldItem.clo >= H(15)
     \/ call.newItem.clo >= H(45)
  /\ sumCLO(call.pushed.core) * 10 > call.given.requirements.core.max * 11

upgradeTakesOff(call) ==
  /\ call.upgraded.core = call.pushed.core
  /\ \A z \in {"head", "neck", "hands", "feet"} :
       call.upgraded[z] =
         IF upgradeTriggered(call)
           THEN stayingOn(call.pushed, call.given.requirements, z)
           ELSE call.pushed[z]

\* C23: when an outer garment is swapped for an outer garment that is at
\* least 0.15 CLO warmer or of at least 0.45 CLO, and the core insulation
\* after the swap exceeds coreMax * 1.1, accessories come off one at a time,
\* those of the zone furthest above its minimum first (ties in the order
\* head, neck, hands, feet), until the core insulation lowered by 30% of each
\* accessory taken off is at most coreMax * 1.05 or none is left; otherwise
\* the step takes no accessory off.
C23_UpgradeTakesAccessoriesOff ==
  \A i \in DOMAIN calls : upgradeTakesOff(calls[i])

\* An upgrade that took some accessories off and left others on, starting
\* with a zone that is not the head.
C23_Witness ==
  \E i \in DOMAIN calls :
    /\ upgradeTriggered(calls[i])
    /\ calls[i].pushed.head # <<>>
    /\ calls[i].upgraded.head = calls[i].pushed.head
    /\ \E z \in {"neck", "hands", "feet"} : calls[i].upgraded[z] # calls[i].pushed[z]

\* The number of garments in five zone lists.
garmentsIn(lists) ==
  Len(lists.core) + Len(lists.head) + Len(lists.hands) + Len(lists.neck)
    + Len(lists.feet)

coreOptimal(call) == call.given.requirements.core.optimal

\* The rebalancing of the call found the core more than 0.20 CLO above the
\* optimal and removed a garment.
rebalanceRemoved(call) ==
  /\ sumCLO(call.swapped.core) - coreOptimal(call) > threshold
  /\ garmentsIn(call.updated) < garmentsIn(call.swapped)

\* C24: whenever the rebalancing removes a garment, the core insulation of
\* the outfit returned is strictly closer to the core optimal than it was
\* before the removal, and not more than 0.20 CLO below the optimal.
C24_RemovalBringsCoreCloser ==
  \A i \in DOMAIN calls :
    rebalanceRemoved(calls[i]) =>
      /\ Abs(calls[i].updated.coreCLO - coreOptimal(calls[i]))
           < Abs(sumCLO(calls[i].swapped.core) - coreOptimal(calls[i]))
      /\ calls[i].updated.coreCLO >= coreOptimal(calls[i]) - threshold

without(seq, j) == SubSeq(seq, 1, j - 1) \o SubSeq(seq, j + 1, Len(seq))

\* The zones whose list the rebalancing of the call changed.
changedZones(call) == {z \in ZoneSet : call.updated[z] # call.swapped[z]}

\* <<z, j>>: the rebalancing removed garment j of zone z.
removals(call) ==
  {r \in UNION {{<<z, j>> : j \in DOMAIN call.swapped[z]} : z \in ZoneSet} :
     call.updated[r[1]] = without(call.swapped[r[1]], r[2])}

\* The zones to which the rebalancing added one garment.
additions(call) ==
  {z \in ZoneSet : /\ Len(call.updated[z]) = Len(call.swapped[z]) + 1
                   /\ without(call.updated[z], Len(call.updated[z])) = call.swapped[z]}

coreDistance(call) == sumCLO(call.swapped.core) - coreOptimal(call)

rebalancedByOne(call) ==
  /\ Cardinality(changedZones(call)) <= 1
  /\ \A z \in changedZones(call) :
       (\E r \in removals(call) : r[1] = z) \/ z \in additions(call)
  /\ \A r \in removals(call) :
       /\ coreDistance(call) > threshold
       /\ call.swapped[r[1]][r[2]].category \notin {"base", "outer"}
  /\ \A z \in additions(call) :
       /\ coreDistance(call) < -threshold
       /\ <<z, call.updated[z][1].key>>
            \in {<<"neck", "scarf">>, <<"head", "hat">>, <<"hands", "gloves">>}
       /\ call.swapped[z] = <<>>
       /\ call.given.requirements[z].max > 0
  /\ (coreDistance(call) >= -threshold /\ coreDistance(call) <= threshold) =>
       changedZones(call) = {}

\* C25: the rebalancing changes the outfit by at most one garment, one
\* removal or one addition and never both; it removes only when the core is
\* more than 0.20 CLO above the optimal and never a base or outer garment; it
\* adds only when the core is more than 0.20 CLO below the optimal, and only
\* a scarf, hat or gloves to a neck, head or hands zone that is empty and
\* whose requirement has a maximum above 0; within 0.20 CLO of the optimal
\* nothing is added or removed.
C25_RebalanceChangesOneGarment ==
  \A i \in DOMAIN calls : rebalancedByOne(calls[i])

\* A session with a call whose rebalancing removed a mid layer and a call
\* whose rebalancing added an accessory.
C25_Witness ==
  /\ \E i \in DOMAIN calls :
       \E r \in removals(calls[i]) : calls[i].swapped[r[1]][r[2]].category = "mid"
  /\ \E i \in DOMAIN calls : additions(calls[i]) # {}

(***************************************************************************)
(* Properties of the validator (SpecValid)                                 *)
(***************************************************************************)
validated == validationCall # NoValidationCall

midOf(core) == sumCLO(ofCategory(core, "mid"))

outerOf(core) == sumCLO(ofCategory(core, "outer"))

\* x exceeds top - ((temp + 15) / 30) * slope clamped to [low, top], all in
\* hundredths of a CLO, temp in steps of 1 / TempDen degrees.
exceedsScaled(x, top, slope, low, temp) ==
  /\ x > H(low)
  /\ x > H(top) \/ (H(top) - x) * 30 * TempDen < (temp + Deg(15)) * H(slope)

\* The summed mid insulation of the core exceeds the ceiling of its outer
\* insulation.
exceedsCeiling(core, temp) ==
  \/ outerOf(core) >= H(49) /\ exceedsScaled(midOf(core), 100, 50, 50, temp)
  \/ /\ outerOf(core) >= H(37)
     /\ outerOf(core) < H(49)
     /\ exceedsScaled(midOf(core), 95, 40, 55, temp)

\* C26: the validator rejects an outfit whose summed mid insulation exceeds
\* the ceiling of its outer insulation: 1.00 - ((t + 15) / 30) * 0.50 clamped
\* to [0.50, 1.00] for an outer of at least 0.49 CLO, 0.95 - ((t + 15) / 30)
\* * 0.40 clamped to [0.55, 0.95] for an outer in [0.37, 0.49); with a
\* lighter outer or none, and for an outfit within its ceiling, this rule
\* rejects nothing.
C26_MidCeiling ==
  validated =>
    /\ exceedsCeiling(validationCall.core, stateTemperature) =>
         ~validationCall.isValid
    /\ ~exceedsCeiling(validationCall.core, stateTemperature) =>
         validationCall.reason # "Excessive mid-layers for outer layer"

\* An outfit with the regular coat rejected by this rule at a temperature
\* where the ceiling is between its bounds.
C26_Witness ==
  /\ validated
  /\ validationCall.reason = "Excessive mid-layers for outer layer"
  /\ outerOf(validationCall.core) = H(40)
  /\ stateTemperature > Deg(-15)
  /\ stateTemperature < Deg(15)

\* The vest is the only base garment of the core.
vestOnly(core) ==
  /\ Len(ofCategory(core, "base")) = 1
  /\ ofCategory(core, "base")[1].key = "vest"

\* C27: the validator rejects every outfit whose core has exactly one base
\* garment when that garment is the Vest, so no outfit that the
\* recommendation returns has the Vest as its only base garment.
C27_VestNotWornAlone ==
  /\ (validated /\ vestOnly(validationCall.core)) => ~validationCall.isValid
  /\ \A k \in DOMAIN recommendations : ~vestOnly(recommendations[k].core)

(***************************************************************************)
(* Properties of the requirement model (SpecReq), continued                *)
(***************************************************************************)
ordered(requirement) ==
  /\ 0 <= requirement.min
  /\ requirement.min <= requirement.optimal
  /\ requirement.optimal <= requirement.max

\* C28: for every temperature from -15 to 20, age category, gender and
\* calibration from -2 to 2, every zone of the requirement set the
\* recommendation uses has 0 <= min <= optimal <= max, so that the window
\* [min, max * 1.3] of the zone is not empty.
C28_RequirementsOrdered ==
  (queried /\ stateAgeCategory \in AgeCategories) =>
    \A zone \in ZoneSet :
      /\ ordered(stateRequirements[zone])
      /\ stateRequirements[zone].min * 10 <= stateRequirements[zone].max * 13

(***************************************************************************)
(* Properties of the substitution model (Spec): garments worn once         *)
(***************************************************************************)
\* No two garments of the outfit have the same key.
distinctKeys(outfit) == \A key \in Keys : garmentCount(outfit, key) <= 1

\* findSubstitutes has answered for a garment of the outfit shown.
wornAsked ==
  /\ substituteModal.asked
  /\ screen = "substitutes" \/ substituteModal.open
  /\ stateCurrentRecommendation # NoOutfit
  /\ garmentCount(stateCurrentRecommendation, substituteModal.item.key) > 0

\* C29: no garment appears twice in an outfit: the outfits the
\* recommendation returns, and the outfits reached from them by
\* substitutions of a garment of the outfit by a garment findSubstitutes
\* offers for it, have pairwise distinct keys over all zone lists, and
\* findSubstitutes offers no garment the outfit already contains.
C29_NoGarmentTwice ==
  /\ (stateCurrentRecommendation # NoOutfit /\ substitutionChain(Len(calls))) =>
       distinctKeys(stateCurrentRecommendation)
  /\ (wornAsked /\ substitutionChain(Len(calls))) =>
       \A i \in DOMAIN substituteModal.substitutes :
         garmentCount(stateCurrentRecommendation,
                      substituteModal.substitutes[i].key) = 0

(***************************************************************************)
(* Properties of the recommendation model (SpecRec): the ranking           *)
(***************************************************************************)
\* Outfit a is ranked before outfit b, or level with it.
notBelow(a, b) == compareCombinations(a, b) <= 0

\* The comparator is transitive over the outfits of the list.
transitiveOver(outfits) ==
  \A i, j, k \in DOMAIN outfits :
    (notBelow(outfits[i], outfits[j]) /\ notBelow(outfits[j], outfits[k]))
      => notBelow(outfits[i], outfits[k])

\* C30: the ranking comparator (the higher practicality score first, scores
\* within 5 points of each other ordered by the higher count of common
\* garments) is transitive over the valid outfits, so the first outfit of the
\* ranked list is ranked below no other valid outfit by that comparator.
C30_RankingTransitive ==
  /\ \A j \in DOMAIN validCombinations :
       notBelow(validCombinations[1], validCombinations[j])
  /\ transitiveOver(validCombinations)

====
